---- MODULE Spec2Model ----
(***************************************************************************)
(* Display TODOs: the scanning and scope-tracking engine.                  *)
(*                                                                         *)
(* The model has two layers.  The scanner (scanner.ts) is a set of         *)
(* operators: compileConfig, scanLines, scanText, scanDocument,            *)
(* getFileUris, and the steps of the asynchronous scanWorkspace.  The      *)
(* controller (activate) is the state machine around it: the diagnostic    *)
(* collection, the tracked scope set, the cancellation tokens, the timer   *)
(* table of the host and the handlers registered on it.                    *)
(*                                                                         *)
(* Scheduling: one JavaScript thread.  A handler runs without              *)
(* interruption up to its first pending await; every action below is one   *)
(* such run.  A timer set with delay D is pending while less than D has    *)
(* elapsed since it was set and its callback runs before the handler of    *)
(* any event that arrives later than that; timers due at the same time     *)
(* run in the order they were set.  So "an event arrives less than D       *)
(* after the timer was set" is "the timer is still in the timer table".    *)
(***************************************************************************)
EXTENDS Integers, Sequences, FiniteSets, TLC

VARIABLES
    settings,           \* the host's settings for the displayTodos section
    config,             \* activate: let config = readConfig()
    disk,               \* the files of the workspace folder
    openDocs,           \* vscode.workspace.textDocuments (their URIs)
    buffer,             \* the text of each document object (live, unsaved edits included)
    store,              \* diagnosticCollection: URI -> diagnostics
    inScopeUris,        \* activate: const inScopeUris = new Set<string>()
    recentlySavedUris,  \* activate: const recentlySavedUris = new Set<string>()
    scans,              \* every scanWorkspace call made so far, with its position
    cancelledTok,       \* the scans whose CancellationToken has been cancelled
    scanCts,            \* activate: let scanCts (0 = undefined), the newest scan
    timers,             \* the host's table of pending setTimeout timers, in the order set
    rescanTimer,        \* activate: let rescanTimer (0 = undefined)
    changeTimers,       \* activate: const changeTimers = new Map (0 = no entry)
    tasks,              \* watcher handlers suspended at an await
    disposed,           \* the extension's subscriptions have been disposed
    storeWriter,        \* history: which scan wrote each store entry (0 = a handler, or cleared)
    scopeWriter,        \* history: which scan added each scope entry
    burst,              \* history: the current burst of events per debounce key
    last                \* history: the handler step that ran last

vars == <<settings, config, disk, openDocs, buffer, store, inScopeUris,
          recentlySavedUris, scans, cancelledTok, scanCts, timers, rescanTimer,
          changeTimers, tasks, disposed, storeWriter, scopeWriter, burst, last>>

(***************************************************************************)
(* Bounds of the model.  BATCH_SIZE is the scanner's concurrency limit     *)
(* (scanner.ts line 6, 50 there); it is scaled down, and kept a bound, so  *)
(* that a workspace of three files is scanned in more than one batch.      *)
(***************************************************************************)
MaxScans == 2
BATCH_SIZE == 2
MaxSavePending == 2
MaxTasks == 1

RESCAN_DEBOUNCE_MS == 400
CHANGE_DEBOUNCE_MS == 300
SAVE_SUPPRESS_MS == 1000

(***************************************************************************)
(* The workspace folder file:///w: two files in its directory src, one at  *)
(* its root, and one untitled document.                                     *)
(***************************************************************************)
FileA == "file:///w/src/a.ts"
FileB == "file:///w/b.ts"
FileC == "file:///w/src/c.png"
Untitled == "untitled:Untitled-1"
FileUris == {FileA, FileB, FileC}
Uris == FileUris \cup {Untitled}
UriOrder == <<FileA, FileB, FileC, Untitled>>

scheme(u) == IF u = Untitled THEN "untitled" ELSE "file"
languageId(u) == IF u \in {FileA, FileB} THEN "typescript" ELSE "plaintext"

Range(s) == {s[i] : i \in DOMAIN s}
Min(a, b) == IF a < b THEN a ELSE b

(***************************************************************************)
(* Strings of the scanner.  A string is the sequence of its characters,    *)
(* so that a match has an offset and a length.                             *)
(***************************************************************************)
UpperOf ==
    ("a" :> "A") @@ ("b" :> "B") @@ ("c" :> "C") @@ ("d" :> "D") @@ ("e" :> "E") @@
    ("f" :> "F") @@ ("g" :> "G") @@ ("h" :> "H") @@ ("i" :> "I") @@ ("j" :> "J") @@
    ("k" :> "K") @@ ("l" :> "L") @@ ("m" :> "M") @@ ("n" :> "N") @@ ("o" :> "O") @@
    ("p" :> "P") @@ ("q" :> "Q") @@ ("r" :> "R") @@ ("s" :> "S") @@ ("t" :> "T") @@
    ("u" :> "U") @@ ("v" :> "V") @@ ("w" :> "W") @@ ("x" :> "X") @@ ("y" :> "Y") @@
    ("z" :> "Z")

\* String.prototype.toUpperCase
toUpperCase(s) == [i \in DOMAIN s |-> IF s[i] \in DOMAIN UpperOf THEN UpperOf[s[i]] ELSE s[i]]

\* The classes of the regular expressions: \w, \s (also what trim removes),
\* and the line terminators that . does not match.
WordChars ==
    DOMAIN UpperOf \cup {UpperOf[c] : c \in DOMAIN UpperOf}
        \cup {"0", "1", "2", "3", "4", "5", "6", "7", "8", "9", "_"}
WhiteSpace == {" ", "\t", "\n", "\r"}
LineTerminators == {"\n", "\r"}

\* String.prototype.trimEnd, trimStart, trim
trimEnd(s) ==
    LET n == CHOOSE k \in 0..Len(s) :
                 /\ \A j \in (k + 1)..Len(s) : s[j] \in WhiteSpace
                 /\ (k = 0 \/ s[k] \notin WhiteSpace)
    IN SubSeq(s, 1, n)

trimStart(s) ==
    LET n == CHOOSE k \in 0..Len(s) :
                 /\ \A j \in 1..k : s[j] \in WhiteSpace
                 /\ (k = Len(s) \/ s[k + 1] \notin WhiteSpace)
    IN SubSeq(s, n + 1, Len(s))

trim(s) == trimStart(trimEnd(s))

\* text.split(/\r?\n/): cut at every \n, an \r just before it going too.
RECURSIVE split(_)
split(text) ==
    IF \A j \in DOMAIN text : text[j] # "\n" THEN <<text>>
    ELSE LET p == CHOOSE k \in DOMAIN text :
                      /\ text[k] = "\n"
                      /\ \A j \in 1..(k - 1) : text[j] # "\n"
             cut == IF p > 1 /\ text[p - 1] = "\r" THEN p - 2 ELSE p - 1
         IN <<SubSeq(text, 1, cut)>> \o split(SubSeq(text, p + 1, Len(text)))

\* The lines of a TextDocument (document.lineAt(i).text for i below
\* document.lineCount): the host ends a line at \r\n, at \n and at \r.
RECURSIVE documentLines(_)
documentLines(text) ==
    IF \A j \in DOMAIN text : text[j] \notin LineTerminators THEN <<text>>
    ELSE LET p == CHOOSE k \in DOMAIN text :
                      /\ text[k] \in LineTerminators
                      /\ \A j \in 1..(k - 1) : text[j] \notin LineTerminators
             next == IF text[p] = "\r" /\ p < Len(text) /\ text[p + 1] = "\n"
                     THEN p + 2 ELSE p + 1
         IN <<SubSeq(text, 1, p - 1)>> \o documentLines(SubSeq(text, next, Len(text)))

LineCode == <<"x">>

TextNone == LineCode
TextTodo == <<"T", "O", "D", "O", ":", " ", "a">> \o <<"\n">> \o LineCode
TextFixme == LineCode \o <<"\r", "\n">> \o <<"F", "I", "X", "M", "E", " ", "b">>

NoDiagnostics == <<>>

(***************************************************************************)
(* Glob patterns, strings of characters.                                   *)
(***************************************************************************)
GlobAll == <<"*", "*", "/", "*">>
GlobTs == <<"*", "*", "/", "*", ".", "t", "s">>
GlobPng == <<"*", "*", "/", "*", ".", "p", "n", "g">>

(***************************************************************************)
(* Configurations.  A pattern template is a string of the settings; the    *)
(* two below are the default of the README and the one of the tests.       *)
(***************************************************************************)
PatternDefault == "\\b({keywords})\\b[:\\s]+(.+)"
PatternLoose == "\\b({keywords})\\b[:\\s]?(.*)"
PatternNoGroup == "\\b(?:{keywords})\\b"
PatternUnclosed == "\\b({keywords}\\b"

KwTodo == [keyword |-> <<"T", "O", "D", "O">>, severity |-> "warning"]
KwFixme == [keyword |-> <<"F", "I", "X", "M", "E">>, severity |-> "error"]

CfgAll == [keywords |-> <<KwFixme, KwTodo>>, include |-> <<GlobAll>>,
           exclude |-> <<>>, pattern |-> PatternDefault, caseSensitive |-> TRUE]
CfgFixmeTs == [keywords |-> <<KwFixme>>, include |-> <<GlobTs>>,
               exclude |-> <<>>, pattern |-> PatternDefault, caseSensitive |-> TRUE]
CfgNoPng == [keywords |-> <<KwTodo>>, include |-> <<GlobAll>>,
             exclude |-> <<GlobPng>>, pattern |-> PatternLoose,
             caseSensitive |-> FALSE]

SettingsChoices ==
    { [cfg |-> CfgAll, enable |-> TRUE, tsEnable |-> "unset"],
      [cfg |-> CfgFixmeTs, enable |-> TRUE, tsEnable |-> "unset"],
      [cfg |-> CfgNoPng, enable |-> TRUE, tsEnable |-> "false"],
      [cfg |-> CfgAll, enable |-> FALSE, tsEnable |-> "unset"] }

\* readConfig: the ScanConfig the settings hold now.
readConfig == settings.cfg

\* isEnabledFor: the enable flag scoped to the document, a language
\* override winning over the global value.
isEnabledFor(u) ==
    IF languageId(u) = "typescript" /\ settings.tsEnable # "unset"
    THEN settings.tsEnable = "true"
    ELSE settings.enable

(***************************************************************************)
(* The scanner's pure part.                                                *)
(***************************************************************************)
\* SEVERITY_MAP[severity] ?? Warning.  SEVERITY_MAP is an object literal:
\* a name it does not define is looked up on Object.prototype, and what
\* is found there is neither undefined nor a DiagnosticSeverity.
ObjectPrototypeNames ==
    {"constructor", "toString", "valueOf", "hasOwnProperty", "isPrototypeOf",
     "propertyIsEnumerable", "toLocaleString", "__proto__"}

SEVERITY_MAP(sev) ==
    CASE sev \in {"error", "warning", "info", "hint"} -> sev
      [] sev \in ObjectPrototypeNames -> "inherited"
      [] OTHER -> "warning"

\* (variant: the key is the keyword as written, whatever the case setting)
lookupKeyAsWritten(kw, caseSensitive) == kw

lookupKey(kw, caseSensitive) == IF caseSensitive THEN kw ELSE toUpperCase(kw)

\* buildSeverityLookup: a later rule overwrites an earlier one of the same key.
buildSeverityLookup(keywords, caseSensitive) ==
    [k \in {lookupKey(keywords[i].keyword, caseSensitive) : i \in DOMAIN keywords} |->
        LET hits == {i \in DOMAIN keywords :
                        lookupKey(keywords[i].keyword, caseSensitive) = k}
            lastHit == CHOOSE i \in hits : \A j \in hits : j <= i
        IN SEVERITY_MAP(keywords[lastHit].severity)]

\* kw.keyword.replace(/[.*+?^${}()|[\]\\]/g, "\\$&")
RegexSpecials == {".", "*", "+", "?", "^", "$", "{", "}", "(", ")", "|", "[", "]", "\\"}

RECURSIVE escapeKeyword(_)
escapeKeyword(kw) ==
    IF Len(kw) = 0 THEN <<>>
    ELSE (IF Head(kw) \in RegexSpecials THEN <<"\\", Head(kw)>> ELSE <<Head(kw)>>)
         \o escapeKeyword(Tail(kw))

\* Array.prototype.join: escaped.join("|"), filtered.join(",")
RECURSIVE join(_, _)
join(strs, separator) ==
    IF Len(strs) = 0 THEN <<>>
    ELSE IF Len(strs) = 1 THEN strs[1]
    ELSE strs[1] \o <<separator>> \o join(Tail(strs), separator)

\* pattern.replace("{keywords}", replacement): what is put in the place of
\* the placeholder.  In a replacement $$ stands for $ and $& for the text
\* replaced; a backslash is a character like any other.  (No keyword of
\* the model holds $` or $', the two other forms.)
RECURSIVE getSubstitution(_)
getSubstitution(replacement) ==
    IF Len(replacement) = 0 THEN <<>>
    ELSE IF Head(replacement) # "$" \/ Len(replacement) = 1
    THEN <<Head(replacement)>> \o getSubstitution(Tail(replacement))
    ELSE IF replacement[2] = "&"
    THEN <<"{", "k", "e", "y", "w", "o", "r", "d", "s", "}">>
            \o getSubstitution(SubSeq(replacement, 3, Len(replacement)))
    ELSE IF replacement[2] = "$"
    THEN <<"$">> \o getSubstitution(SubSeq(replacement, 3, Len(replacement)))
    ELSE <<"$">> \o getSubstitution(Tail(replacement))

\* What new RegExp reads in the place of the placeholder: alternatives cut
\* at every | that no backslash escapes; within one, an escaped character
\* stands for itself and so does every other one (current is the
\* alternative read so far).
RECURSIVE alternatives(_, _)
alternatives(source, current) ==
    IF Len(source) = 0 THEN <<current>>
    ELSE IF Head(source) = "|"
    THEN <<current>> \o alternatives(Tail(source), <<>>)
    ELSE IF Head(source) = "\\" /\ Len(source) > 1
    THEN alternatives(SubSeq(source, 3, Len(source)), current \o <<source[2]>>)
    ELSE alternatives(Tail(source), current \o <<Head(source)>>)

\* The template around the {keywords} placeholder, as new RegExp reads it:
\* whether it compiles at all; how many capture groups it has (two: the
\* alternation is group 1, then come the separators [:\s], at least
\* sepMin and more than one when sepMany, and group 2, at least restMin
\* characters of .; none: the alternation between two \b is all of it).
templateOf(pattern) ==
    CASE pattern = PatternDefault ->
           [compiles |-> TRUE, groups |-> 2, sepMin |-> 1, sepMany |-> TRUE, restMin |-> 1]
      [] pattern = PatternLoose ->
           [compiles |-> TRUE, groups |-> 2, sepMin |-> 0, sepMany |-> FALSE, restMin |-> 0]
      [] pattern = PatternNoGroup ->
           [compiles |-> TRUE, groups |-> 0, sepMin |-> 0, sepMany |-> FALSE, restMin |-> 0]
      [] pattern = PatternUnclosed ->
           [compiles |-> FALSE, groups |-> 1, sepMin |-> 0, sepMany |-> FALSE, restMin |-> 0]

\* buildPattern: the source is the template with the joined escaped
\* keywords put in the place of the placeholder; flag i unless
\* case-sensitive.
buildPattern(keywords, pattern, caseSensitive) ==
    [never |-> FALSE,
     template |-> templateOf(pattern),
     alternation |->
        alternatives(getSubstitution(join([i \in DOMAIN keywords |->
                                              escapeKeyword(keywords[i].keyword)], "|")),
                     <<>>),
     ignoreCase |-> ~caseSensitive]

\* (variant: the pattern is built from the template even for no keyword)
compileConfigAlways(cfg) ==
    [pattern |-> buildPattern(cfg.keywords, cfg.pattern, cfg.caseSensitive),
     severityLookup |-> buildSeverityLookup(cfg.keywords, cfg.caseSensitive),
     caseSensitive |-> cfg.caseSensitive]

\* compileConfig: no keyword gives /(?!)/, which matches nowhere.
compileConfig(cfg) ==
    IF Len(cfg.keywords) = 0
    THEN [pattern |-> [never |-> TRUE, template |-> templateOf(PatternNoGroup),
                      alternation |-> <<>>,
                      ignoreCase |-> FALSE], severityLookup |-> <<>>,
          caseSensitive |-> cfg.caseSensitive]
    ELSE [pattern |-> buildPattern(cfg.keywords, cfg.pattern, cfg.caseSensitive),
          severityLookup |-> buildSeverityLookup(cfg.keywords, cfg.caseSensitive),
          caseSensitive |-> cfg.caseSensitive]

\* \b at offset p of s: a word character on exactly one side.
wordBoundary(s, p) ==
    (p >= 1 /\ s[p] \in WordChars) # (p < Len(s) /\ s[p + 1] \in WordChars)

\* The longest run from offset p of separators ([:\s]), of characters . matches.
sepRun(s, p) ==
    CHOOSE n \in 0..(Len(s) - p) :
        /\ \A j \in 1..n : s[p + j] \in WhiteSpace \cup {":"}
        /\ (n = Len(s) - p \/ s[p + n + 1] \notin WhiteSpace \cup {":"})

dotRun(s, p) ==
    CHOOSE n \in 0..(Len(s) - p) :
        /\ \A j \in 1..n : s[p + j] \notin LineTerminators
        /\ (n = Len(s) - p \/ s[p + n + 1] \in LineTerminators)

NoMatch == [index |-> -1, g1 |-> <<0, 0>>, g2 |-> <<0, 0>>, end |-> -1]

\* The match of one alternative at offset p: the separators are greedy and
\* give back only what group 2 needs.
matchAlternative(regex, s, p, alt) ==
    LET t == regex.template
        e == p + Len(alt)
        same == IF regex.ignoreCase
                THEN toUpperCase(SubSeq(s, p + 1, e)) = toUpperCase(alt)
                ELSE SubSeq(s, p + 1, e) = alt
        most == IF t.sepMany THEN sepRun(s, e) ELSE Min(sepRun(s, e), 1)
        fits == {n \in t.sepMin..most : dotRun(s, e + n) >= t.restMin}
        seps == CHOOSE n \in fits : \A k \in fits : k <= n
    IN IF ~(e <= Len(s) /\ same /\ wordBoundary(s, e))
       THEN NoMatch
       ELSE IF t.groups = 0
       THEN [index |-> p, g1 |-> <<p, p>>, g2 |-> <<p, p>>, end |-> e]
       ELSE IF fits # {}
       THEN [index |-> p, g1 |-> <<p, e>>,
             g2 |-> <<e + seps, e + seps + dotRun(s, e + seps)>>,
             end |-> e + seps + dotRun(s, e + seps)]
       ELSE NoMatch

\* The match at offset p, where the leading \b holds: the first
\* alternative, from the k-th on, that matches there.
RECURSIVE matchFrom(_, _, _, _)
matchFrom(regex, s, p, k) ==
    IF k > Len(regex.alternation) THEN NoMatch
    ELSE LET m == matchAlternative(regex, s, p, regex.alternation[k])
         IN IF m # NoMatch THEN m ELSE matchFrom(regex, s, p, k + 1)

matchAt(regex, s, p) ==
    IF regex.never \/ ~wordBoundary(s, p) THEN NoMatch ELSE matchFrom(regex, s, p, 1)

\* (variant: the match at the greatest offset)
execLast(regex, lineText) ==
    LET hits == {p \in 0..Len(lineText) : matchAt(regex, lineText, p) # NoMatch}
        final == CHOOSE p \in hits : \A q \in hits : q <= p
    IN IF hits = {} THEN NoMatch ELSE matchAt(regex, lineText, final)

\* pattern.exec(lineText), no g flag: the match at the least offset.
RECURSIVE execFrom(_, _, _)
execFrom(regex, lineText, p) ==
    IF p > Len(lineText) THEN NoMatch
    ELSE LET m == matchAt(regex, lineText, p)
         IN IF m # NoMatch THEN m ELSE execFrom(regex, lineText, p + 1)

exec(regex, lineText) == execFrom(regex, lineText, 0)

group(lineText, g) == SubSeq(lineText, g[1] + 1, g[2])

\* (variant: group 2 goes into the message as matched)
diagnosticUntrimmed(compiled, lineText, lineIndex, match) ==
    LET m1 == group(lineText, match.g1)
        keyword == IF compiled.caseSensitive THEN m1 ELSE toUpperCase(m1)
        trailing == group(lineText, match.g2)
    IN [line |-> lineIndex,
        start |-> match.index,
        end |-> match.index + Len(trimEnd(SubSeq(lineText, match.index + 1, match.end))),
        message |-> IF trailing # <<>> THEN keyword \o <<":", " ">> \o trailing ELSE keyword,
        severity |-> IF keyword \in DOMAIN compiled.severityLookup
                     THEN compiled.severityLookup[keyword] ELSE "warning"]

\* (variant: the range ends where the match ends)
diagnosticWholeMatch(compiled, lineText, lineIndex, match) ==
    LET m1 == group(lineText, match.g1)
        keyword == IF compiled.caseSensitive THEN m1 ELSE toUpperCase(m1)
        trailing == trim(group(lineText, match.g2))
    IN [line |-> lineIndex,
        start |-> match.index,
        end |-> match.end,
        message |-> IF trailing # <<>> THEN keyword \o <<":", " ">> \o trailing ELSE keyword,
        severity |-> IF keyword \in DOMAIN compiled.severityLookup
                     THEN compiled.severityLookup[keyword] ELSE "warning"]

\* The body of the loop of scanLines for the line at lineIndex.
diagnosticOf(compiled, lineText, lineIndex, match) ==
    LET m1 == group(lineText, match.g1)
        keyword == IF compiled.caseSensitive THEN m1 ELSE toUpperCase(m1)
        trailing == trim(group(lineText, match.g2))
        message == IF trailing # <<>> THEN keyword \o <<":", " ">> \o trailing ELSE keyword
        m0 == SubSeq(lineText, match.index + 1, match.end)
        severity == IF keyword \in DOMAIN compiled.severityLookup
                    THEN compiled.severityLookup[keyword]
                    ELSE "warning"
    IN [line |-> lineIndex,
        start |-> match.index,
        end |-> match.index + Len(trimEnd(m0)),
        message |-> message,
        severity |-> severity]

RECURSIVE scanLinesFrom(_, _, _)
scanLinesFrom(compiled, lines, lineIndex) ==
    IF lineIndex >= Len(lines) THEN <<>>
    ELSE LET match == exec(compiled.pattern, lines[lineIndex + 1])
         IN (IF match = NoMatch THEN <<>>
             ELSE <<diagnosticOf(compiled, lines[lineIndex + 1], lineIndex, match)>>)
            \o scanLinesFrom(compiled, lines, lineIndex + 1)

scanLines(compiled, lines) == scanLinesFrom(compiled, lines, 0)

\* scanText: no enable check; the lines are the text split at /\r?\n/.
scanText(text, compiled) == scanLines(compiled, split(text))

\* scanDocument: nothing for a document scanning is disabled for.
scanDocumentText(u, text, compiled) ==
    IF ~isEnabledFor(u) THEN NoDiagnostics ELSE scanLines(compiled, documentLines(text))

scanDocument(u, compiled) == scanDocumentText(u, buffer[u], compiled)

\* What a scan of these lines under this configuration throws: compiling
\* does, or match[1].toUpperCase() on a match that has no group 1.  (A
\* case-sensitive configuration of such a template is not drawn.)
scanThrows(cfg, lines) ==
    \/ Len(cfg.keywords) > 0 /\ ~templateOf(cfg.pattern).compiles
    \/ /\ Len(cfg.keywords) > 0
       /\ templateOf(cfg.pattern).groups = 0
       /\ ~cfg.caseSensitive
       /\ \E i \in DOMAIN lines : exec(compileConfig(cfg).pattern, lines[i]) # NoMatch

(***************************************************************************)
(* Paths.  A URI is handled through its pieces: the URI of the workspace   *)
(* folder as one piece, then the characters of the path below it, so that  *)
(* one URI is a prefix of another exactly when its pieces are a prefix of  *)
(* the other's, and the relative path is a string of characters.           *)
(***************************************************************************)
DirW == "file:///w"
DirSrc == "file:///w/src"
DirSrcSlash == "file:///w/src/"
NameSr == "file:///w/sr"
DeletePaths == FileUris \cup {DirW, DirSrc, DirSrcSlash, NameSr}

\* The files the scope tests are asked about.
ScopeUris ==
    {"file:///w/src/file.ts", "file:///w/src/file.js", "file:///w/file.ts",
     "file:///w/src/generated/file.ts", "file:///w/node_modules/pkg/index.ts",
     "file:///w/.github/workflows/ci.yml", Untitled}


pieces(str) ==
    LET under(relativePath) == <<"file:///w", "/">> \o relativePath
    IN CASE str = DirW -> <<"file:///w">>
         [] str = NameSr ->
              under(<<"s", "r">>)
         [] str = DirSrc ->
              under(<<"s", "r", "c">>)
         [] str = DirSrcSlash ->
              under(<<"s", "r", "c", "/">>)
         [] str = FileA ->
              under(<<"s", "r", "c", "/", "a", ".", "t", "s">>)
         [] str = FileB ->
              under(<<"b", ".", "t", "s">>)
         [] str = FileC ->
              under(<<"s", "r", "c", "/", "c", ".", "p", "n", "g">>)
         [] str = "file:///w/src/file.ts" ->
              under(<<"s", "r", "c", "/", "f", "i", "l", "e", ".", "t", "s">>)
         [] str = "file:///w/src/file.js" ->
              under(<<"s", "r", "c", "/", "f", "i", "l", "e", ".", "j", "s">>)
         [] str = "file:///w/file.ts" ->
              under(<<"f", "i", "l", "e", ".", "t", "s">>)
         [] str = "file:///w/src/generated/file.ts" ->
              under(<<"s", "r", "c", "/", "g", "e", "n", "e", "r", "a", "t",
                      "e", "d", "/", "f", "i", "l", "e", ".", "t", "s">>)
         [] str = "file:///w/node_modules/pkg/index.ts" ->
              under(<<"n", "o", "d", "e", "_", "m", "o", "d", "u", "l", "e",
                      "s", "/", "p", "k", "g", "/", "i", "n", "d", "e", "x",
                      ".", "t", "s">>)
         [] str = "file:///w/.github/workflows/ci.yml" ->
              under(<<".", "g", "i", "t", "h", "u", "b", "/", "w", "o", "r",
                      "k", "f", "l", "o", "w", "s", "/", "c", "i", ".", "y",
                      "m", "l">>)
         [] OTHER -> <<str>>

startsWith(str, prefix) ==
    /\ Len(prefix) <= Len(str)
    /\ SubSeq(str, 1, Len(prefix)) = prefix

endsWith(str, piece) == Len(str) > 0 /\ str[Len(str)] = piece

\* getWorkspaceFolder(uri): the folder holding it, if any.
getWorkspaceFolder(u) == IF startsWith(pieces(u), pieces(DirW) \o <<"/">>) THEN DirW ELSE ""

\* asRelativePath(uri, false): the path below the workspace folder.
asRelativePath(u) == SubSeq(pieces(u), 3, Len(pieces(u)))

\* matchGlob: the atoms of the regular expression the replacements leave:
\* ** becomes .* (before any single * is looked at), * becomes [^/]*,
\* ? becomes [^/], every other character stands for itself.
RECURSIVE globAtoms(_)
globAtoms(pattern) ==
    IF Len(pattern) = 0 THEN <<>>
    ELSE IF Len(pattern) >= 2 /\ pattern[1] = "*" /\ pattern[2] = "*"
    THEN <<"**">> \o globAtoms(SubSeq(pattern, 3, Len(pattern)))
    ELSE <<pattern[1]>> \o globAtoms(Tail(pattern))

\* new RegExp(`^${regexSource}$`).test(path)
RECURSIVE testAtoms(_, _)
testAtoms(path, atoms) ==
    IF Len(atoms) = 0 THEN Len(path) = 0
    ELSE LET rest(k) == SubSeq(path, k + 1, Len(path))
         IN CASE Head(atoms) = "**" ->
                   \E k \in 0..Len(path) : testAtoms(rest(k), Tail(atoms))
              [] Head(atoms) = "*" ->
                   \E k \in 0..Len(path) :
                      /\ \A j \in 1..k : path[j] # "/"
                      /\ testAtoms(rest(k), Tail(atoms))
              [] Head(atoms) = "?" ->
                   /\ Len(path) > 0
                   /\ Head(path) # "/"
                   /\ testAtoms(Tail(path), Tail(atoms))
              [] OTHER ->
                   /\ Len(path) > 0
                   /\ Head(path) = Head(atoms)
                   /\ testAtoms(Tail(path), Tail(atoms))

matchGlob(path, pattern) == testAtoms(path, globAtoms(pattern))

\* matchesScope: in a workspace folder, some include pattern matches the
\* relative path and no exclude pattern does.
matchesScope(u, cfg) ==
    /\ getWorkspaceFolder(u) # ""
    /\ \E i \in DOMAIN cfg.include : matchGlob(asRelativePath(u), trim(cfg.include[i]))
    /\ ~ \E i \in DOMAIN cfg.exclude : matchGlob(asRelativePath(u), trim(cfg.exclude[i]))

(***************************************************************************)
(* Enumeration: the host's findFiles over the globs, which it reads        *)
(* segment by segment: ** is any number of whole segments, none included,  *)
(* * any run of characters within a segment, ? one character of it.        *)
(***************************************************************************)
RECURSIVE segments(_)
segments(path) ==
    IF \A j \in DOMAIN path : path[j] # "/" THEN <<path>>
    ELSE LET p == CHOOSE k \in DOMAIN path :
                      path[k] = "/" /\ \A j \in 1..(k - 1) : path[j] # "/"
         IN <<SubSeq(path, 1, p - 1)>> \o segments(SubSeq(path, p + 1, Len(path)))

RECURSIVE segmentMatches(_, _)
segmentMatches(name, pattern) ==
    IF Len(pattern) = 0 THEN Len(name) = 0
    ELSE CASE Head(pattern) = "*" ->
                \E k \in 0..Len(name) :
                    segmentMatches(SubSeq(name, k + 1, Len(name)), Tail(pattern))
           [] Head(pattern) = "?" ->
                Len(name) > 0 /\ segmentMatches(Tail(name), Tail(pattern))
           [] OTHER ->
                /\ Len(name) > 0
                /\ Head(name) = Head(pattern)
                /\ segmentMatches(Tail(name), Tail(pattern))

RECURSIVE segmentsMatch(_, _)
segmentsMatch(names, patterns) ==
    IF Len(patterns) = 0 THEN Len(names) = 0
    ELSE IF Head(patterns) = <<"*", "*">>
    THEN \E k \in 0..Len(names) :
            segmentsMatch(SubSeq(names, k + 1, Len(names)), Tail(patterns))
    ELSE /\ Len(names) > 0
         /\ segmentMatches(Head(names), Head(patterns))
         /\ segmentsMatch(Tail(names), Tail(patterns))

globMatch(path, pattern) == segmentsMatch(segments(path), segments(pattern))

\* A glob of the form {a,b,...} stands for its alternatives, any other for
\* itself (current is the alternative read so far; no pattern of the model
\* holds a brace or a comma of its own).
RECURSIVE braceAlternatives(_, _)
braceAlternatives(glob, current) ==
    IF Len(glob) = 0 THEN <<current>>
    ELSE IF Head(glob) \in {"{", "}"} THEN braceAlternatives(Tail(glob), current)
    ELSE IF Head(glob) = "," THEN <<current>> \o braceAlternatives(Tail(glob), <<>>)
    ELSE braceAlternatives(Tail(glob), current \o <<Head(glob)>>)

GlobMatches(glob, u) ==
    \E a \in Range(braceAlternatives(glob, <<>>)) : globMatch(asRelativePath(u), a)

\* (variant: the patterns are joined as given)
toGlobAsGiven(patterns) ==
    IF Len(patterns) = 0 THEN <<>>
    ELSE IF Len(patterns) = 1 THEN patterns[1]
    ELSE <<"{">> \o join(patterns, ",") \o <<"}">>

\* toGlob(patterns)
toGlob(patterns) ==
    LET filtered == SelectSeq([i \in DOMAIN patterns |-> trim(patterns[i])],
                              LAMBDA p : Len(p) > 0)
    IN IF Len(filtered) = 0 THEN <<>>
       ELSE IF Len(filtered) = 1 THEN filtered[1]
       ELSE <<"{">> \o join(filtered, ",") \o <<"}">>

findFiles(includeGlob, excludeGlob) ==
    SelectSeq(UriOrder,
              LAMBDA u : /\ u \in FileUris
                         /\ disk[u].exists
                         /\ GlobMatches(includeGlob, u)
                         /\ ~GlobMatches(excludeGlob, u))

getFileUris(cfg) == findFiles(toGlob(cfg.include), toGlob(cfg.exclude))

\* The binary heuristic (extension denylist or a NUL byte in the prefix):
\* the file's own attribute.
isLikelyBinaryFile(u) == disk[u].binary


(***************************************************************************)
(* The host's timer table.                                                 *)
(***************************************************************************)

newTimerId(tbl) == CHOOSE n \in 1..(Len(tbl) + 1) : n \notin {tbl[i].id : i \in DOMAIN tbl}

setTimeout(tbl, kind, key, delay) ==
    Append(tbl, [id |-> newTimerId(tbl), kind |-> kind, key |-> key, delay |-> delay])

clearTimeout(tbl, id) == SelectSeq(tbl, LAMBDA t : t.id # id)

\* A timer is due before every timer set after it with at least its delay.
\* (variant: no timer ever comes due)
canFireNever(i) == FALSE

canFire(i) == \A j \in 1..(i - 1) : timers[j].delay > timers[i].delay

(***************************************************************************)
(* scanWorkspace.  A scan is at "enumerating" (awaiting getFileUris), at   *)
(* "batch" (awaiting Promise.allSettled of the batch that starts at index  *)
(* i), or has returned: "done", or "cancelled" when it left at a token     *)
(* check.  The model's i is the code's i + 1.                              *)
(***************************************************************************)
EmptyStore == [u \in Uris |-> NoDiagnostics]
NoWriter == [u \in Uris |-> 0]

newScan(cfg) ==
    [config |-> cfg,
     pc |-> IF settings.enable THEN "enumerating" ELSE "done",
     uris |-> <<>>, openDocsByUri |-> {}, i |-> 1, pending |-> {},
     results |-> <<>>, enumerated |-> FALSE, solo |-> TRUE]

\* The steps of anything else while a scan is in flight.
disturbed(ss, sid) ==
    [k \in DOMAIN ss |->
        IF k # sid /\ ss[k].pc \in {"enumerating", "batch"}
        THEN [ss[k] EXCEPT !.solo = FALSE] ELSE ss[k]]

\* (variant: only the text files of the batch are tracked)
batchScopeAddTextOnly(scope, batchUris) ==
    scope \cup {u \in batchUris : ~disk[u].binary}

\* inScopeUris.add(key) for every file of the batch, before anything is read.
batchScopeAdd(scope, batchUris) == scope \cup batchUris

\* (variant: one rejected read drops the results of the whole batch)
writeResultsAllOrNone(sid, results, ctx) ==
    LET hit(u) == /\ \A v \in DOMAIN results : results[v].ok
                  /\ u \in DOMAIN results
                  /\ Len(results[u].diagnostics) > 0
    IN [ctx EXCEPT
          !.store = [u \in Uris |-> IF hit(u) THEN results[u].diagnostics ELSE @[u]],
          !.storeWriter = [u \in Uris |-> IF hit(u) THEN sid ELSE @[u]]]

\* The loop over results: a fulfilled result is stored when it is non-empty.
writeResults(sid, results, ctx) ==
    LET hit(u) == /\ u \in DOMAIN results
                  /\ results[u].ok
                  /\ Len(results[u].diagnostics) > 0
    IN [ctx EXCEPT
          !.store = [u \in Uris |-> IF hit(u) THEN results[u].diagnostics ELSE @[u]],
          !.storeWriter = [u \in Uris |-> IF hit(u) THEN sid ELSE @[u]]]

\* The pass over vscode.workspace.textDocuments after the batches.
finalPass(sid, sc, ctx) ==
    IF sid \in cancelledTok
    THEN [sc |-> [sc EXCEPT !.pc = "cancelled"], ctx |-> ctx]
    ELSE LET compiled == compileConfig(sc.config)
             extra == {u \in openDocs : u \notin ctx.scope}
         IN [sc |-> [sc EXCEPT !.pc = "done"],
             ctx |-> [ctx EXCEPT
                 !.store = [u \in Uris |->
                     IF u \in extra THEN scanDocument(u, compiled) ELSE @[u]],
                 !.storeWriter = [u \in Uris |-> IF u \in extra THEN sid ELSE @[u]]]]

\* (variant: every remaining file is read at once)
runUnbatched(sid, sc, ctx) ==
    IF sc.i > Len(sc.uris) THEN finalPass(sid, sc, ctx)
    ELSE IF sid \in cancelledTok
    THEN [sc |-> [sc EXCEPT !.pc = "cancelled"], ctx |-> ctx]
    ELSE LET compiled == compileConfig(sc.config)
             batchUris == {sc.uris[j] : j \in sc.i..Len(sc.uris)}
             scope1 == batchScopeAdd(ctx.scope, batchUris)
             ctx1 == [ctx EXCEPT
                        !.scope = scope1,
                        !.scopeWriter = [u \in Uris |->
                            IF u \in scope1 \ ctx.scope THEN sid ELSE @[u]]]
             openOnes == batchUris \cap sc.openDocsByUri
             results == [u \in openOnes |->
                            [ok |-> TRUE, diagnostics |-> scanDocument(u, compiled)]]
             pending == batchUris \ openOnes
         IN IF pending = {}
            THEN finalPass(sid, [sc EXCEPT !.i = Len(sc.uris) + 1],
                           writeResults(sid, results, ctx1))
            ELSE [sc |-> [sc EXCEPT !.pc = "batch", !.pending = pending,
                                    !.results = results],
                  ctx |-> ctx1]

\* The batch loop from index sc.i, up to the next pending await or the return.
RECURSIVE runBatches(_, _, _)
runBatches(sid, sc, ctx) ==
    IF sc.i > Len(sc.uris) THEN finalPass(sid, sc, ctx)
    ELSE IF sid \in cancelledTok
    THEN [sc |-> [sc EXCEPT !.pc = "cancelled"], ctx |-> ctx]
    ELSE LET compiled == compileConfig(sc.config)
             batchUris == {sc.uris[j] : j \in sc.i..Min(sc.i + BATCH_SIZE - 1, Len(sc.uris))}
             scope1 == batchScopeAdd(ctx.scope, batchUris)
             ctx1 == [ctx EXCEPT
                        !.scope = scope1,
                        !.scopeWriter = [u \in Uris |->
                            IF u \in scope1 \ ctx.scope THEN sid ELSE @[u]]]
             openOnes == batchUris \cap sc.openDocsByUri
             results == [u \in openOnes |->
                            [ok |-> TRUE, diagnostics |-> scanDocument(u, compiled)]]
             pending == batchUris \ openOnes
         IN IF pending = {}
            THEN runBatches(sid, [sc EXCEPT !.i = sc.i + BATCH_SIZE],
                            writeResults(sid, results, ctx1))
            ELSE [sc |-> [sc EXCEPT !.pc = "batch", !.pending = pending,
                                    !.results = results],
                  ctx |-> ctx1]

ctxNow == [store |-> store, scope |-> inScopeUris,
           storeWriter |-> storeWriter, scopeWriter |-> scopeWriter]

applyScanStep(sid, out) ==
    /\ scans' = [disturbed(scans, sid) EXCEPT ![sid] = out.sc]
    /\ store' = out.ctx.store
    /\ inScopeUris' = out.ctx.scope
    /\ storeWriter' = out.ctx.storeWriter
    /\ scopeWriter' = out.ctx.scopeWriter

\* (variant: the scope set is left as it was)
clearScopeSkipped(scope) == scope

\* scanWorkspace: inScopeUris.clear()
clearScope(scope) == {}

\* (variant: the previous token is dropped without being cancelled)
cancelNothing(cancelled, cts) == cancelled

\* scanCts?.cancel()
cancelPrevious(cancelled, cts) == IF cts = 0 THEN cancelled ELSE cancelled \cup {cts}

\* startScan, with scanWorkspace up to its first await: both collections
\* are cleared, and a scan with the global flag off returns at once.
startScan ==
    /\ cancelledTok' = cancelPrevious(cancelledTok, scanCts)
    /\ scanCts' = Len(scans) + 1
    /\ scans' = Append(disturbed(scans, 0), newScan(config))
    /\ store' = EmptyStore
    /\ inScopeUris' = clearScope(inScopeUris)
    /\ storeWriter' = NoWriter
    /\ scopeWriter' = NoWriter

\* getFileUris resolves: the token check, the snapshot of the open
\* documents, and the batch loop up to its first pending read.
ScanEnumerated(sid) ==
    /\ sid \in DOMAIN scans
    /\ scans[sid].pc = "enumerating"
    /\ LET sc0 == [scans[sid] EXCEPT !.uris = getFileUris(scans[sid].config),
                                     !.enumerated = TRUE]
           out == IF sid \in cancelledTok
                  THEN [sc |-> [sc0 EXCEPT !.pc = "cancelled"], ctx |-> ctxNow]
                  ELSE runBatches(sid, [sc0 EXCEPT !.openDocsByUri = openDocs], ctxNow)
       IN applyScanStep(sid, out)
    /\ last' = [op |-> "enumerated", key |-> "", sid |-> sid, res |-> ""]
    /\ UNCHANGED <<disposed, settings, config, disk, openDocs, buffer, recentlySavedUris,
                   cancelledTok, scanCts, timers, rescanTimer, changeTimers,
                   tasks, burst>>

\* The result of workspace.fs.readFile + decode + scanText for one file.
readResult(u, compiled) ==
    IF disk[u].exists /\ disk[u].readable
    THEN [ok |-> TRUE, diagnostics |-> scanText(disk[u].text, compiled)]
    ELSE [ok |-> FALSE, diagnostics |-> NoDiagnostics]

\* One read of the pending batch settles; with the last one allSettled
\* resolves, the results are stored and the loop goes on.
ReadSettle(sid, u) ==
    /\ sid \in DOMAIN scans
    /\ scans[sid].pc = "batch"
    /\ u \in scans[sid].pending
    /\ LET sc == scans[sid]
           sc1 == [sc EXCEPT !.pending = @ \ {u},
                             !.results = @ @@ (u :> readResult(u, compileConfig(sc.config)))]
           out == IF sc1.pending # {}
                  THEN [sc |-> sc1, ctx |-> ctxNow]
                  ELSE runBatches(sid,
                                  [sc1 EXCEPT !.i = sc.i + BATCH_SIZE, !.results = <<>>],
                                  writeResults(sid, sc1.results, ctxNow))
       IN applyScanStep(sid, out)
    /\ last' = [op |-> "readSettle", key |-> u, sid |-> sid, res |-> ""]
    /\ UNCHANGED <<disposed, settings, config, disk, openDocs, buffer, recentlySavedUris,
                   cancelledTok, scanCts, timers, rescanTimer, changeTimers,
                   tasks, burst>>

(***************************************************************************)
(* Configuration changes and the debounced workspace rescan.               *)
(***************************************************************************)
NoBurst == [n |-> 0, fired |-> 0, saved |-> FALSE]
bump(n) == Min(n + 1, 2)

\* History of the burst of events on debounce key k: an event that finds
\* the key's timer pending continues the burst, any other starts one.
burstEvent(k, pending) ==
    [burst EXCEPT ![k] = IF pending THEN [@ EXCEPT !.n = bump(@)]
                         ELSE [n |-> 1, fired |-> 0, saved |-> FALSE]]
burstFired(k) == [burst EXCEPT ![k].fired = bump(@)]

pendingOf(kind, key) == {i \in DOMAIN timers : timers[i].kind = kind /\ timers[i].key = key}

\* (variant: the pending timer is left to run)
keepRescanTimer(tbl, handle) == tbl

\* debouncedRescan: clearTimeout(rescanTimer) when one is set.
clearRescanTimer(tbl, handle) == IF handle # 0 THEN clearTimeout(tbl, handle) ELSE tbl

\* onDidChangeConfiguration for a change that affects the section.
ConfigChange(s) ==
    /\ ~disposed
    /\ Len(scans) < MaxScans
    /\ s \in SettingsChoices
    /\ settings' = s
    /\ config' = s.cfg
    /\ LET tbl == clearRescanTimer(timers, rescanTimer)
       IN /\ timers' = setTimeout(tbl, "rescan", "", RESCAN_DEBOUNCE_MS)
          /\ rescanTimer' = newTimerId(tbl)
    /\ burst' = burstEvent("rescan", pendingOf("rescan", "") # {})
    /\ scans' = disturbed(scans, 0)
    /\ last' = [op |-> "configChange", key |-> "", sid |-> 0, res |-> ""]
    /\ UNCHANGED <<disposed, disk, openDocs, buffer, store, inScopeUris, recentlySavedUris,
                   cancelledTok, scanCts, changeTimers, tasks, storeWriter,
                   scopeWriter>>

\* The rescan timer's callback: rescanTimer = undefined; startScan().
RescanTimerFire(i) ==
    /\ i \in DOMAIN timers
    /\ timers[i].kind = "rescan"
    /\ canFire(i)
    /\ timers' = clearTimeout(timers, timers[i].id)
    /\ rescanTimer' = 0
    /\ startScan
    /\ burst' = burstFired("rescan")
    /\ last' = [op |-> "rescanFire", key |-> "", sid |-> Len(scans) + 1,
                res |-> IF timers[i].id = rescanTimer THEN "latest" ELSE "stale"]
    /\ UNCHANGED <<disposed, settings, config, disk, openDocs, buffer, recentlySavedUris,
                   changeTimers, tasks>>

(***************************************************************************)
(* The workspace as activate() finds it, and the state it leaves: the      *)
(* configuration read, the first scan started.                             *)
(***************************************************************************)
DiskChoices ==
    { [u \in FileUris |->
          CASE u = FileA -> [exists |-> TRUE, readable |-> TRUE, binary |-> FALSE, text |-> TextTodo]
            [] u = FileB -> [exists |-> TRUE, readable |-> rb, binary |-> FALSE, text |-> TextFixme]
            [] u = FileC -> [exists |-> TRUE, readable |-> TRUE, binary |-> TRUE, text |-> tc]]
      : rb \in BOOLEAN, tc \in {TextNone, TextTodo} }

InitWorkspace ==
    /\ settings \in SettingsChoices
    /\ disk \in DiskChoices
    /\ openDocs \in SUBSET {FileA, Untitled}
    /\ \E ta \in {TextTodo, TextFixme} :
          buffer = [u \in Uris |->
                      CASE u = FileA -> IF FileA \in openDocs THEN ta ELSE disk[FileA].text
                        [] u = Untitled -> TextTodo
                        [] OTHER -> disk[u].text]

Init ==
    /\ InitWorkspace
    /\ config = readConfig
    /\ store = EmptyStore
    /\ inScopeUris = {}
    /\ recentlySavedUris = {}
    /\ scans = <<newScan(readConfig)>>
    /\ cancelledTok = {}
    /\ scanCts = 1
    /\ timers = <<>>
    /\ rescanTimer = 0
    /\ changeTimers = [u \in Uris |-> 0]
    /\ tasks = {}
    /\ disposed = FALSE
    /\ storeWriter = NoWriter
    /\ scopeWriter = NoWriter
    /\ burst = [k \in Uris \cup {"rescan"} |-> NoBurst]
    /\ last = [op |-> "activate", key |-> "", sid |-> 1, res |-> ""]

Next ==
    \/ \E s \in SettingsChoices : ConfigChange(s)
    \/ \E i \in DOMAIN timers : RescanTimerFire(i)
    \/ \E sid \in DOMAIN scans : ScanEnumerated(sid)
    \/ \E sid \in DOMAIN scans, u \in FileUris : ReadSettle(sid, u)

Spec == Init /\ [][Next]_vars


(***************************************************************************)
(* The per-file handlers: text change, save, the watcher's change event.   *)
(***************************************************************************)
setStore(u, diagnostics) ==
    /\ store' = [store EXCEPT ![u] = diagnostics]
    /\ storeWriter' = [storeWriter EXCEPT ![u] = 0]

changeTimersOf(tbl, u) == SelectSeq(tbl, LAMBDA t : t.kind = "change" /\ t.key = u)

\* (variant: the timer of the change before is left to run)
keepExistingChange(tbl, existing) == tbl

\* debouncedDocumentRescan: clearTimeout(existing) when the key has a timer.
clearExistingChange(tbl, existing) ==
    IF existing # 0 THEN clearTimeout(tbl, existing) ELSE tbl

\* onDidChangeTextDocument.  The edit itself is the host's: the buffer
\* holds the new text when the handler runs.
ChangeTextDocument(u, text, deltas) ==
    /\ ~disposed
    /\ u \in openDocs
    /\ deltas \in {0, 1}
    /\ buffer' = IF deltas = 0 THEN buffer ELSE [buffer EXCEPT ![u] = text]
    /\ deltas > 0 => text # buffer[u]
    /\ IF scheme(u) # "file" \/ deltas = 0
       THEN /\ UNCHANGED <<timers, changeTimers, burst>>
            /\ last' = [op |-> "change", key |-> u, sid |-> 0, res |-> "returned"]
       ELSE LET tbl == clearExistingChange(timers, changeTimers[u])
            IN /\ timers' = setTimeout(tbl, "change", u, CHANGE_DEBOUNCE_MS)
               /\ changeTimers' = [changeTimers EXCEPT ![u] = newTimerId(tbl)]
               /\ burst' = burstEvent(u, pendingOf("change", u) # {})
               /\ last' = [op |-> "change", key |-> u, sid |-> 0,
                           res |-> IF \A v \in Uris \ {u} :
                                        /\ changeTimersOf(timers', v) = changeTimersOf(timers, v)
                                        /\ changeTimers'[v] = changeTimers[v]
                                   THEN "others-kept" ELSE "others-touched"]
    /\ UNCHANGED <<disposed, settings, config, disk, openDocs, store, inScopeUris,
                   recentlySavedUris, scans, cancelledTok, scanCts, rescanTimer,
                   tasks, storeWriter, scopeWriter>>

\* The callback of a change timer: the key leaves the map, the document is
\* scanned as it is now and published.
ChangeTimerFire(i) ==
    /\ i \in DOMAIN timers
    /\ timers[i].kind = "change"
    /\ canFire(i)
    /\ LET key == timers[i].key
       IN /\ timers' = clearTimeout(timers, timers[i].id)
          /\ changeTimers' = [changeTimers EXCEPT ![key] = 0]
          /\ setStore(key, scanDocument(key, compileConfig(config)))
          /\ burst' = burstFired(key)
          /\ last' = [op |-> "changeFire", key |-> key, sid |-> 0,
                      res |-> IF timers[i].id = changeTimers[key]
                              THEN "latest" ELSE "stale"]
    /\ UNCHANGED <<disposed, settings, config, disk, openDocs, buffer, inScopeUris,
                   recentlySavedUris, scans, cancelledTok, scanCts, rescanTimer,
                   tasks, scopeWriter>>

\* (variant: the map entry goes, the timer stays in the host's table)
forgetPendingOnSave(tbl, pending) == tbl

\* onDidSaveTextDocument: clearTimeout(pending) when the key has a timer.
clearPendingOnSave(tbl, pending) ==
    IF pending # 0 THEN clearTimeout(tbl, pending) ELSE tbl

\* onDidSaveTextDocument.  The host has written the buffer to the file.
SaveTextDocument(u) ==
    /\ ~disposed
    /\ u \in openDocs
    /\ Len(SelectSeq(timers, LAMBDA t : t.kind = "saved")) < MaxSavePending
    /\ IF scheme(u) # "file"
       THEN /\ UNCHANGED <<disk, recentlySavedUris, timers, changeTimers, store,
                           storeWriter, burst>>
            /\ last' = [op |-> "save", key |-> u, sid |-> 0, res |-> "returned"]
       ELSE /\ disk' = [disk EXCEPT ![u].text = buffer[u], ![u].exists = TRUE]
            /\ recentlySavedUris' = recentlySavedUris \cup {u}
            /\ timers' = setTimeout(clearPendingOnSave(timers, changeTimers[u]),
                                    "saved", u, SAVE_SUPPRESS_MS)
            /\ changeTimers' = [changeTimers EXCEPT ![u] = 0]
            /\ setStore(u, scanDocument(u, compileConfig(config)))
            /\ burst' = [burst EXCEPT ![u].saved = @ \/ pendingOf("change", u) # {}]
            /\ last' = [op |-> "save", key |-> u, sid |-> 0, res |-> "scanned"]
    /\ UNCHANGED <<disposed, settings, config, openDocs, buffer, inScopeUris, scans,
                   cancelledTok, scanCts, rescanTimer, tasks, scopeWriter>>

\* The callback of a save's timer: recentlySavedUris.delete(key).
SavedExpiryFire(i) ==
    /\ i \in DOMAIN timers
    /\ timers[i].kind = "saved"
    /\ canFire(i)
    /\ timers' = clearTimeout(timers, timers[i].id)
    /\ recentlySavedUris' = recentlySavedUris \ {timers[i].key}
    /\ last' = [op |-> "savedExpiry", key |-> timers[i].key, sid |-> 0, res |-> ""]
    /\ UNCHANGED <<disposed, settings, config, disk, openDocs, buffer, store, inScopeUris,
                   scans, cancelledTok, scanCts, rescanTimer, changeTimers, tasks,
                   storeWriter, scopeWriter, burst>>

\* A file that is not open changes on disk (an edit outside the editor).
DiskWrite(u, text) ==
    /\ u \in FileUris \ openDocs
    /\ disk[u].exists /\ ~disk[u].binary
    /\ text # disk[u].text
    /\ disk' = [disk EXCEPT ![u].text = text]
    /\ last' = [op |-> "diskWrite", key |-> u, sid |-> 0, res |-> ""]
    /\ UNCHANGED <<disposed, settings, config, openDocs, buffer, store, inScopeUris,
                   recentlySavedUris, scans, cancelledTok, scanCts, timers,
                   rescanTimer, changeTimers, tasks, storeWriter, scopeWriter, burst>>

\* (variant: the read goes through whatever the file is)
openNeverFails(u) == FALSE

\* isLikelyBinaryFile(uri) or openTextDocument(uri) rejects: the file is
\* gone or cannot be read.  The handler's catch ends it there.
openFails(u) == ~(disk[u].exists /\ disk[u].readable)

\* (variant: only the recently saved files are ignored)
changeIgnoredIfSaved(saved, scope, key) == key \in saved

\* watcher.onDidChange: recentlySavedUris.has(key) || !inScopeUris.has(key)
changeIgnored(saved, scope, key) == key \in saved \/ key \notin scope

\* watcher.onDidChange up to its first await: a recently saved or an
\* untracked file is ignored, any other goes on to the binary check.
WatcherChange(u) ==
    /\ ~disposed
    /\ u \in FileUris
    /\ disk[u].exists
    /\ Cardinality(tasks) < MaxTasks
    /\ IF changeIgnored(recentlySavedUris, inScopeUris, u)
       THEN /\ tasks' = tasks
            /\ last' = [op |-> "fsChange", key |-> u, sid |-> 0, res |-> "ignored"]
       ELSE /\ tasks' = tasks \cup {[kind |-> "fsChange", key |-> u, pc |-> "binary"]}
            /\ last' = [op |-> "fsChange", key |-> u, sid |-> 0, res |-> "handled"]
    /\ UNCHANGED <<disposed, settings, config, disk, openDocs, buffer, store, inScopeUris,
                   recentlySavedUris, scans, cancelledTok, scanCts, timers,
                   rescanTimer, changeTimers, storeWriter, scopeWriter, burst>>

\* isLikelyBinaryFile settles: a file that cannot be read ends the handler
\* in its catch, a binary one has its diagnostics deleted.
FsChangeBinaryChecked(t) ==
    /\ t \in tasks
    /\ t.kind = "fsChange" /\ t.pc = "binary"
    /\ IF openFails(t.key)
       THEN /\ tasks' = tasks \ {t}
            /\ UNCHANGED <<store, storeWriter>>
       ELSE IF isLikelyBinaryFile(t.key)
       THEN /\ tasks' = tasks \ {t}
            /\ setStore(t.key, NoDiagnostics)
       ELSE /\ tasks' = (tasks \ {t}) \cup {[t EXCEPT !.pc = "open"]}
            /\ UNCHANGED <<store, storeWriter>>
    /\ last' = [op |-> "fsChangeBinary", key |-> t.key, sid |-> 0, res |-> ""]
    /\ UNCHANGED <<disposed, settings, config, disk, openDocs, buffer, inScopeUris,
                   recentlySavedUris, scans, cancelledTok, scanCts, timers,
                   rescanTimer, changeTimers, scopeWriter, burst>>

\* openTextDocument settles: the document (the open one, or one loaded
\* from the file) is scanned and published; a failure ends in the catch.
FsChangeOpened(t) ==
    /\ t \in tasks
    /\ t.kind = "fsChange" /\ t.pc = "open"
    /\ tasks' = tasks \ {t}
    /\ IF openFails(t.key)
       THEN UNCHANGED <<buffer, store, storeWriter>>
       ELSE LET text == IF t.key \in openDocs THEN buffer[t.key] ELSE disk[t.key].text
            IN /\ buffer' = [buffer EXCEPT ![t.key] = text]
               /\ setStore(t.key, scanDocumentText(t.key, text, compileConfig(config)))
    /\ last' = [op |-> "fsChangeOpened", key |-> t.key, sid |-> 0, res |-> ""]
    /\ UNCHANGED <<disposed, settings, config, disk, openDocs, inScopeUris,
                   recentlySavedUris, scans, cancelledTok, scanCts, timers,
                   rescanTimer, changeTimers, scopeWriter, burst>>

(***************************************************************************)
(* The watcher's delete and create events.                                 *)
(***************************************************************************)
\* The files a path holds on disk: itself, or the files of the directory.
filesAt(path) ==
    CASE path \in FileUris -> {path}
      [] path = DirW -> FileUris
      [] path \in {DirSrc, DirSrcSlash} -> {FileA, FileC}
      [] OTHER -> {}

\* (variant: the key as it is, without the separator)
prefixBare(key) == key

\* onDidDelete: const prefix = key.endsWith("/") ? key : key + "/"
deletePrefix(key) == IF endsWith(key, "/") THEN key ELSE key \o <<"/">>

\* watcher.onDidDelete.  The path is gone from disk when the event arrives.
WatcherDelete(path) ==
    /\ ~disposed
    /\ path \in DeletePaths
    /\ path \in FileUris => disk[path].exists
    /\ disk' = [u \in FileUris |->
                  IF u \in filesAt(path) THEN [disk[u] EXCEPT !.exists = FALSE] ELSE disk[u]]
    /\ LET removed == IF path \in inScopeUris THEN {path}
                      ELSE {scopeUri \in inScopeUris :
                              startsWith(pieces(scopeUri), deletePrefix(pieces(path)))}
       IN /\ inScopeUris' = inScopeUris \ removed
          /\ store' = [u \in Uris |-> IF u \in removed THEN NoDiagnostics ELSE store[u]]
          /\ storeWriter' = [u \in Uris |-> IF u \in removed THEN 0 ELSE storeWriter[u]]
          /\ scopeWriter' = [u \in Uris |-> IF u \in removed THEN 0 ELSE scopeWriter[u]]
          /\ last' = [op |-> "fsDelete", key |-> path, sid |-> 0,
                      res |-> CASE Cardinality(removed) = 0 -> "none"
                                [] Cardinality(removed) = 1 -> "one"
                                [] OTHER -> "many"]
    /\ scans' = disturbed(scans, 0)
    /\ UNCHANGED <<disposed, settings, config, openDocs, buffer, recentlySavedUris,
                   cancelledTok, scanCts, timers, rescanTimer, changeTimers, tasks,
                   burst>>

\* watcher.onDidCreate up to its first await.  The file is on disk when
\* the event arrives.
WatcherCreate(u, text) ==
    /\ ~disposed
    /\ u \in FileUris
    /\ ~disk[u].exists
    /\ Cardinality(tasks) < MaxTasks
    /\ disk' = [disk EXCEPT ![u].exists = TRUE, ![u].text = text]
    /\ IF ~matchesScope(u, config)
       THEN /\ tasks' = tasks
            /\ last' = [op |-> "fsCreate", key |-> u, sid |-> 0, res |-> "ignored"]
       ELSE /\ tasks' = tasks \cup {[kind |-> "fsCreate", key |-> u, pc |-> "binary"]}
            /\ last' = [op |-> "fsCreate", key |-> u, sid |-> 0, res |-> "handled"]
    /\ scans' = disturbed(scans, 0)
    /\ UNCHANGED <<disposed, settings, config, openDocs, buffer, store, inScopeUris,
                   recentlySavedUris, cancelledTok, scanCts, timers, rescanTimer,
                   changeTimers, storeWriter, scopeWriter, burst>>

\* isLikelyBinaryFile settles in the create handler: a binary file, or one
\* that cannot be read (the catch), ends the handler.
FsCreateBinaryChecked(t) ==
    /\ t \in tasks
    /\ t.kind = "fsCreate" /\ t.pc = "binary"
    /\ IF openFails(t.key) \/ isLikelyBinaryFile(t.key)
       THEN tasks' = tasks \ {t}
       ELSE tasks' = (tasks \ {t}) \cup {[t EXCEPT !.pc = "open"]}
    /\ last' = [op |-> "fsCreateBinary", key |-> t.key, sid |-> 0, res |-> ""]
    /\ scans' = disturbed(scans, 0)
    /\ UNCHANGED <<disposed, settings, config, disk, openDocs, buffer, store,
                   inScopeUris, recentlySavedUris, cancelledTok, scanCts, timers,
                   rescanTimer, changeTimers, storeWriter, scopeWriter, burst>>

\* openTextDocument settles in the create handler: the file is tracked,
\* scanned and published; a failure ends in the catch.
FsCreateOpened(t) ==
    /\ t \in tasks
    /\ t.kind = "fsCreate" /\ t.pc = "open"
    /\ tasks' = tasks \ {t}
    /\ IF openFails(t.key)
       THEN /\ UNCHANGED <<buffer, store, storeWriter, inScopeUris, scopeWriter>>
            /\ last' = [op |-> "fsCreateOpened", key |-> t.key, sid |-> 0, res |-> "failed"]
       ELSE LET text == IF t.key \in openDocs THEN buffer[t.key] ELSE disk[t.key].text
            IN /\ buffer' = [buffer EXCEPT ![t.key] = text]
               /\ inScopeUris' = inScopeUris \cup {t.key}
               /\ scopeWriter' = [scopeWriter EXCEPT ![t.key] = 0]
               /\ setStore(t.key, scanDocumentText(t.key, text, compileConfig(config)))
               /\ last' = [op |-> "fsCreateOpened", key |-> t.key, sid |-> 0,
                           res |-> "published"]
    /\ scans' = disturbed(scans, 0)
    /\ UNCHANGED <<disposed, settings, config, disk, openDocs, recentlySavedUris,
                   cancelledTok, scanCts, timers, rescanTimer, changeTimers, burst>>

(***************************************************************************)
(* Open and close of a document.                                           *)
(***************************************************************************)
\* (variant: the entry is left as it is)
openKeeps(u, text) == store[u]

\* onDidOpenTextDocument: scanDocument(document, config)
openDiagnostics(u, text) == scanDocumentText(u, text, compileConfig(config))

\* onDidOpenTextDocument.  The host has loaded the file into a document.
OpenTextDocument(u) ==
    /\ ~disposed
    /\ u \in Uris \ openDocs
    /\ u \in FileUris => disk[u].exists /\ disk[u].readable /\ ~disk[u].binary
    /\ openDocs' = openDocs \cup {u}
    /\ LET text == IF u \in FileUris THEN disk[u].text ELSE buffer[u]
       IN /\ buffer' = [buffer EXCEPT ![u] = text]
          /\ IF scheme(u) # "file"
             THEN /\ UNCHANGED <<store, storeWriter>>
                  /\ last' = [op |-> "open", key |-> u, sid |-> 0, res |-> "returned"]
             ELSE /\ setStore(u, openDiagnostics(u, text))
                  /\ last' = [op |-> "open", key |-> u, sid |-> 0, res |-> "scanned"]
    /\ scans' = disturbed(scans, 0)
    /\ UNCHANGED <<disposed, settings, config, disk, inScopeUris, recentlySavedUris,
                   cancelledTok, scanCts, timers, rescanTimer, changeTimers, tasks,
                   scopeWriter, burst>>

\* (variant: every closed file loses its entry)
closeDropsAll(scope, key) == TRUE

\* onDidCloseTextDocument: !inScopeUris.has(document.uri.toString())
closeDrops(scope, key) == key \notin scope

\* onDidCloseTextDocument.  Unsaved edits go with the document.
CloseTextDocument(u) ==
    /\ ~disposed
    /\ u \in openDocs
    /\ openDocs' = openDocs \ {u}
    /\ buffer' = IF u \in FileUris THEN [buffer EXCEPT ![u] = disk[u].text] ELSE buffer
    /\ IF scheme(u) # "file"
       THEN /\ UNCHANGED <<store, storeWriter>>
            /\ last' = [op |-> "close", key |-> u, sid |-> 0, res |-> "returned"]
       ELSE IF closeDrops(inScopeUris, u)
       THEN /\ setStore(u, NoDiagnostics)
            /\ last' = [op |-> "close", key |-> u, sid |-> 0, res |-> "untracked"]
       ELSE /\ UNCHANGED <<store, storeWriter>>
            /\ last' = [op |-> "close", key |-> u, sid |-> 0, res |-> "tracked"]
    /\ scans' = disturbed(scans, 0)
    /\ UNCHANGED <<disposed, settings, config, disk, inScopeUris, recentlySavedUris,
                   cancelledTok, scanCts, timers, rescanTimer, changeTimers, tasks,
                   scopeWriter, burst>>

(***************************************************************************)
(* Teardown.                                                               *)
(***************************************************************************)
\* The disposable pushed last: the scan token is cancelled, the rescan
\* timer and every change timer are cleared.  The listeners are disposed
\* with it, so no handler runs for a later event.
Dispose ==
    /\ ~disposed
    /\ disposed' = TRUE
    /\ cancelledTok' = cancelPrevious(cancelledTok, scanCts)
    /\ LET handles == {rescanTimer} \cup {changeTimers[u] : u \in Uris}
       IN timers' = SelectSeq(timers, LAMBDA t : t.id \notin handles)
    /\ changeTimers' = [u \in Uris |-> 0]
    /\ scans' = disturbed(scans, 0)
    /\ last' = [op |-> "dispose", key |-> "", sid |-> 0, res |-> ""]
    /\ UNCHANGED <<settings, config, disk, openDocs, buffer, store, inScopeUris,
                   recentlySavedUris, scanCts, rescanTimer, tasks, storeWriter,
                   scopeWriter, burst>>

(***************************************************************************)
(* The controller at rest after activation: the first scan has run to      *)
(* completion over the workspace, nothing else has happened yet.           *)
(***************************************************************************)
scannedStore(cfg) ==
    LET compiled == compileConfig(cfg)
        found == Range(getFileUris(cfg))
    IN [u \in Uris |->
          IF u \in openDocs THEN scanDocument(u, compiled)
          ELSE IF u \in found /\ disk[u].readable THEN scanText(disk[u].text, compiled)
          ELSE NoDiagnostics]

InitEdit ==
    /\ settings \in {s \in SettingsChoices : s.enable /\ s.cfg # CfgFixmeTs}
    /\ disk \in {d \in DiskChoices : d[FileB].readable /\ d[FileC].text = TextTodo}
    /\ openDocs \in {{FileA, Untitled}, {FileA, FileB}}
    /\ buffer = [u \in Uris |-> IF u = Untitled THEN TextTodo ELSE disk[u].text]
    /\ config = readConfig
    /\ store = scannedStore(config)
    /\ inScopeUris = Range(getFileUris(config))
    /\ recentlySavedUris = {}
    /\ scans = <<[config |-> config, pc |-> "done", uris |-> getFileUris(config),
                  openDocsByUri |-> openDocs,
                  i |-> ((Len(getFileUris(config)) + BATCH_SIZE - 1) \div BATCH_SIZE)
                            * BATCH_SIZE + 1,
                  pending |-> {}, results |-> <<>>, enumerated |-> TRUE,
                  solo |-> TRUE]>>
    /\ cancelledTok = {}
    /\ scanCts = 1
    /\ timers = <<>>
    /\ rescanTimer = 0
    /\ changeTimers = [u \in Uris |-> 0]
    /\ tasks = {}
    /\ disposed = FALSE
    /\ storeWriter = [u \in Uris |-> IF store[u] # NoDiagnostics THEN 1 ELSE 0]
    /\ scopeWriter = [u \in Uris |-> IF u \in inScopeUris THEN 1 ELSE 0]
    /\ burst = [k \in Uris \cup {"rescan"} |-> NoBurst]
    /\ last = [op |-> "readSettle", key |-> "", sid |-> 1, res |-> ""]

NextEdit ==
    \/ \E u \in Uris, text \in {TextTodo, TextFixme}, deltas \in {0, 1} :
          ChangeTextDocument(u, text, deltas)
    \/ \E i \in DOMAIN timers : ChangeTimerFire(i)
    \/ \E u \in Uris : SaveTextDocument(u)
    \/ \E i \in DOMAIN timers : SavedExpiryFire(i)
    \/ Dispose

NextWatch ==
    \/ \E u \in Uris : SaveTextDocument(u)
    \/ \E i \in DOMAIN timers : SavedExpiryFire(i)
    \/ \E u \in FileUris, text \in {TextTodo, TextFixme} : DiskWrite(u, text)
    \/ \E u \in FileUris : WatcherChange(u)
    \/ \E t \in tasks : FsChangeBinaryChecked(t)
    \/ \E t \in tasks : FsChangeOpened(t)

NextFiles ==
    \/ \E path \in DeletePaths : WatcherDelete(path)
    \/ \E u \in FileUris : WatcherCreate(u, TextFixme)
    \/ \E t \in tasks : FsCreateBinaryChecked(t)
    \/ \E t \in tasks : FsCreateOpened(t)
    \/ \E u \in Uris : OpenTextDocument(u)
    \/ \E u \in Uris : CloseTextDocument(u)

SpecEdit == InitEdit /\ [][NextEdit]_vars

\* The same handlers with the host's timers running: the callback of a
\* change timer that is due is run in the end.  This is weak fairness of
\* ChangeTimerFire, written out with the condition under which the
\* callback can run.  One file and one untitled document are open.
InitLive == InitEdit /\ settings.cfg = CfgAll /\ openDocs = {FileA, Untitled}

SpecLive ==
    /\ InitLive
    /\ [][NextEdit]_vars
    /\ \/ []<>(~ \E i \in DOMAIN timers : timers[i].kind = "change" /\ canFire(i))
       \/ []<><<\E i \in DOMAIN timers : ChangeTimerFire(i)>>_vars

SpecWatch == InitEdit /\ [][NextWatch]_vars

SpecFiles == InitEdit /\ [][NextFiles]_vars

(***************************************************************************)
(* The scanner called directly, as the tests call it: any configuration    *)
(* of the rules below and any text of the tokens below, held by the file   *)
(* FileA and by an untitled document; the workspace scan of activate()     *)
(* runs over the same workspace.                                           *)
(***************************************************************************)
MaxRules == 2
MaxTokens == 3

WordTodo == <<"T", "O", "D", "O">>
WordTodoLower == <<"t", "o", "d", "o">>

RulePool ==
    { [keyword |-> WordTodo, severity |-> "error"],
      [keyword |-> WordTodoLower, severity |-> "info"],
      [keyword |-> WordTodo, severity |-> "critical"],
      [keyword |-> WordTodoLower, severity |-> "constructor"] }

ScanConfigs ==
    { [keywords |-> ks, include |-> <<GlobAll>>, exclude |-> <<>>,
       pattern |-> p, caseSensitive |-> cs] :
         ks \in UNION {[1..n -> RulePool] : n \in 0..MaxRules},
         p \in {PatternDefault, PatternLoose},
         cs \in BOOLEAN }

RECURSIVE concat(_)
concat(ts) == IF Len(ts) = 0 THEN <<>> ELSE Head(ts) \o concat(Tail(ts))

ScanTexts ==
    {concat(ts) :
        ts \in UNION {[1..n -> {WordTodo, WordTodoLower, <<":">>, <<" ">>, <<"x">>, <<"-">>,
                                <<"\n">>, <<"\r">>}] :
                         n \in 0..MaxTokens}}

\* The fixture: configuration c, text t in FileA and in the untitled document.
scanFixture(c, t) ==
    /\ settings = [cfg |-> c, enable |-> TRUE, tsEnable |-> "unset"]
    /\ config = c
    /\ disk = [u \in FileUris |->
                 [exists |-> u = FileA, readable |-> TRUE, binary |-> FALSE,
                  text |-> IF u = FileA THEN t ELSE TextNone]]
    /\ buffer = [u \in Uris |-> IF u \in {FileA, Untitled} THEN t ELSE TextNone]
    /\ openDocs = {Untitled}
    /\ store = EmptyStore
    /\ inScopeUris = {}
    /\ recentlySavedUris = {}
    /\ scans = <<newScan(config)>>
    /\ cancelledTok = {}
    /\ scanCts = 1
    /\ timers = <<>>
    /\ rescanTimer = 0
    /\ changeTimers = [u \in Uris |-> 0]
    /\ tasks = {}
    /\ disposed = FALSE
    /\ storeWriter = NoWriter
    /\ scopeWriter = NoWriter
    /\ burst = [k \in Uris \cup {"rescan"} |-> NoBurst]
    /\ last = [op |-> "activate", key |-> "", sid |-> 1, res |-> ""]

InitScan == \E c \in ScanConfigs, t \in ScanTexts : scanFixture(c, t)

\* scanText(text, compileConfig(config)) on the text of FileA.
ScanTextCall ==
    /\ last' = IF scanThrows(config, split(disk[FileA].text))
               THEN [op |-> "scanTextThrew", key |-> FileA, sid |-> 0,
                     res |-> NoDiagnostics]
               ELSE [op |-> "scanText", key |-> FileA, sid |-> 0,
                     res |-> scanText(disk[FileA].text, compileConfig(config))]
    /\ UNCHANGED <<settings, config, disk, openDocs, buffer, store, inScopeUris,
                   recentlySavedUris, scans, cancelledTok, scanCts, timers,
                   rescanTimer, changeTimers, tasks, disposed, storeWriter,
                   scopeWriter, burst>>

\* scanDocument(document, config) on the untitled document.
ScanDocumentCall ==
    /\ last' = IF isEnabledFor(Untitled)
                  /\ scanThrows(config, documentLines(buffer[Untitled]))
               THEN [op |-> "scanDocumentThrew", key |-> Untitled, sid |-> 0,
                     res |-> NoDiagnostics]
               ELSE [op |-> "scanDocument", key |-> Untitled, sid |-> 0,
                     res |-> scanDocument(Untitled, compileConfig(config))]
    /\ UNCHANGED <<settings, config, disk, openDocs, buffer, store, inScopeUris,
                   recentlySavedUris, scans, cancelledTok, scanCts, timers,
                   rescanTimer, changeTimers, tasks, disposed, storeWriter,
                   scopeWriter, burst>>

NextScan ==
    \/ ScanTextCall
    \/ ScanDocumentCall
    \/ \E sid \in DOMAIN scans : ScanEnumerated(sid)
    \/ \E sid \in DOMAIN scans, u \in FileUris : ReadSettle(sid, u)

SpecScan == InitScan /\ [][NextScan]_vars

(***************************************************************************)
(* The same calls for keywords that hold characters special in a regular   *)
(* expression or in a replacement, and for templates that do not compile   *)
(* or have no group for the keyword.                                       *)
(***************************************************************************)
CompileConfigs ==
    LET words == {<<"a", ".", "b">>, <<"a", "|", "b">>, <<"a", "$", "&", "b">>}
        rules == UNION {[1..n -> {[keyword |-> w, severity |-> "warning"] : w \in words}] :
                           n \in 1..MaxRules}
        all == { [keywords |-> ks, include |-> <<GlobAll>>, exclude |-> <<>>,
                  pattern |-> p, caseSensitive |-> cs] :
                    ks \in rules,
                    p \in {PatternLoose, PatternNoGroup, PatternUnclosed},
                    cs \in BOOLEAN }
    IN {c \in all : c.pattern = PatternNoGroup => ~c.caseSensitive}

CompileTexts ==
    {concat(ts) :
        ts \in UNION {[1..n -> {<<"a">>, <<"b">>, <<"x">>, <<".">>, <<"|">>, <<"$", "&">>,
                                <<"{", "k", "e", "y", "w", "o", "r", "d", "s", "}">>}] :
                         n \in 0..MaxTokens}}

InitCompile == \E c \in CompileConfigs, t \in CompileTexts : scanFixture(c, t)

NextCompile == ScanTextCall \/ ScanDocumentCall

SpecCompile == InitCompile /\ [][NextCompile]_vars

(***************************************************************************)
(* The scope functions on their own: a configuration whose include and     *)
(* exclude lists are drawn from the patterns below, asked about the files  *)
(* of ScopeUris.                                                           *)
(***************************************************************************)
MaxGlobs == 2

\* **/node_modules/**, src/**/*.ts, src/generated/**, src/?ile.ts
GlobPool ==
    {GlobAll, GlobTs,
     <<"*", "*", "/", "n", "o", "d", "e", "_", "m", "o", "d", "u", "l", "e",
       "s", "/", "*", "*">>,
     <<"s", "r", "c", "/", "*", "*", "/", "*", ".", "t", "s">>,
     <<"s", "r", "c", "/", "g", "e", "n", "e", "r", "a", "t", "e", "d", "/",
       "*", "*">>,
     <<"s", "r", "c", "/", "?", "i", "l", "e", ".", "t", "s">>}


ScopeConfigs ==
    { [keywords |-> <<KwTodo>>, include |-> inc, exclude |-> exc,
       pattern |-> PatternDefault, caseSensitive |-> TRUE] :
         inc \in UNION {[1..n -> GlobPool] : n \in 0..MaxGlobs},
         exc \in UNION {[1..n -> GlobPool] : n \in 0..MaxGlobs} }

scopeFixture(c) ==
    /\ settings = [cfg |-> c, enable |-> TRUE, tsEnable |-> "unset"]
    /\ config = c
    /\ disk = [u \in FileUris |->
                 [exists |-> TRUE, readable |-> TRUE, binary |-> FALSE, text |-> TextNone]]
    /\ buffer = [u \in Uris |-> TextNone]
    /\ openDocs = {}
    /\ store = EmptyStore
    /\ inScopeUris = {}
    /\ recentlySavedUris = {}
    /\ scans = <<newScan(config)>>
    /\ cancelledTok = {}
    /\ scanCts = 1
    /\ timers = <<>>
    /\ rescanTimer = 0
    /\ changeTimers = [u \in Uris |-> 0]
    /\ tasks = {}
    /\ disposed = FALSE
    /\ storeWriter = NoWriter
    /\ scopeWriter = NoWriter
    /\ burst = [k \in Uris \cup {"rescan"} |-> NoBurst]
    /\ last = [op |-> "activate", key |-> "", sid |-> 1, res |-> ""]

InitScope == \E c \in ScopeConfigs : scopeFixture(c)

\* matchesScope(uri, config)
MatchesScopeCall(u) ==
    /\ last' = [op |-> "matchesScope", key |-> u, sid |-> 0,
                res |-> matchesScope(u, config)]
    /\ UNCHANGED <<settings, config, disk, openDocs, buffer, store, inScopeUris,
                   recentlySavedUris, scans, cancelledTok, scanCts, timers,
                   rescanTimer, changeTimers, tasks, disposed, storeWriter,
                   scopeWriter, burst>>

\* matchGlob(relativePath, pattern), for each pattern of the pool.
MatchGlobCall(u) ==
    /\ getWorkspaceFolder(u) # ""
    /\ last' = [op |-> "matchGlob", key |-> u, sid |-> 0,
                res |-> [p \in GlobPool |-> matchGlob(asRelativePath(u), p)]]
    /\ UNCHANGED <<settings, config, disk, openDocs, buffer, store, inScopeUris,
                   recentlySavedUris, scans, cancelledTok, scanCts, timers,
                   rescanTimer, changeTimers, tasks, disposed, storeWriter,
                   scopeWriter, burst>>

\* toGlob(patterns)
ToGlobCall(patterns) ==
    /\ last' = [op |-> "toGlob", key |-> patterns, sid |-> 0, res |-> toGlob(patterns)]
    /\ UNCHANGED <<settings, config, disk, openDocs, buffer, store, inScopeUris,
                   recentlySavedUris, scans, cancelledTok, scanCts, timers,
                   rescanTimer, changeTimers, tasks, disposed, storeWriter,
                   scopeWriter, burst>>

NextScope ==
    \/ \E u \in ScopeUris : MatchesScopeCall(u)
    \/ \E u \in ScopeUris : MatchGlobCall(u)

SpecScope == InitScope /\ [][NextScope]_vars

\* toGlob on the two lists of a configuration, as getFileUris calls it; the
\* lists hold patterns as written in a settings file, padded, empty and
\* blank ones among them.
InitGlob ==
    LET lists == UNION {[1..n -> {GlobAll, GlobTs, <<>>, <<" ", " ">>,
                                  <<" ", "s", "r", "c", "/", "*", "*", "/", "*", ".",
                                    "t", "s", " ">>}] : n \in 0..MaxGlobs}
    IN \E inc \in lists, exc \in lists :
          scopeFixture([keywords |-> <<KwTodo>>, include |-> inc, exclude |-> exc,
                        pattern |-> PatternDefault, caseSensitive |-> TRUE])

NextGlob == ToGlobCall(config.include) \/ ToGlobCall(config.exclude)

SpecGlob == InitGlob /\ [][NextGlob]_vars

(***************************************************************************)
(* A document's life after the first scan: a file and an untitled          *)
(* document are edited, closed and opened again, the file or its directory *)
(* is deleted, the change timers run.                                      *)
(***************************************************************************)
InitLife == InitEdit /\ settings.cfg = CfgAll /\ openDocs = {FileA, Untitled}

NextLife ==
    \/ \E u \in {FileA, Untitled}, text \in {TextTodo, TextFixme}, deltas \in {0, 1} :
          ChangeTextDocument(u, text, deltas)
    \/ \E i \in DOMAIN timers : ChangeTimerFire(i)
    \/ \E path \in {FileA, DirSrc} : WatcherDelete(path)
    \/ \E u \in {FileA, Untitled} : OpenTextDocument(u)
    \/ \E u \in {FileA, Untitled} : CloseTextDocument(u)

SpecLife == InitLife /\ [][NextLife]_vars

(***************************************************************************)
(* The watcher's handlers beside a running scan: activation has started    *)
(* the first scan of a workspace with no document open; files are deleted, *)
(* created and changed while it and the handlers are under way.            *)
(***************************************************************************)
InitRace ==
    /\ Init
    /\ settings.cfg = CfgAll /\ settings.enable
    /\ disk[FileB].readable /\ disk[FileC].text = TextTodo
    /\ openDocs = {}

NextRace ==
    \/ \E sid \in DOMAIN scans : ScanEnumerated(sid)
    \/ \E sid \in DOMAIN scans, u \in FileUris : ReadSettle(sid, u)
    \/ \E path \in DeletePaths : WatcherDelete(path)
    \/ \E u \in FileUris : WatcherCreate(u, TextFixme)
    \/ \E t \in tasks : FsCreateBinaryChecked(t)
    \/ \E t \in tasks : FsCreateOpened(t)
    \/ \E u \in FileUris : WatcherChange(u)
    \/ \E t \in tasks : FsChangeBinaryChecked(t)
    \/ \E t \in tasks : FsChangeOpened(t)

SpecRace == InitRace /\ [][NextRace]_vars

(***************************************************************************)
(* Workspace scan: results, scope, cancellation.                           *)
(***************************************************************************)
returnedNow(sid) == last.op \in {"enumerated", "readSettle"} /\ last.sid = sid
inFlight(sid) == scans[sid].pc \in {"enumerating", "batch"}
candidates(sid) == Range(scans[sid].uris)

\* What a scan publishes for one file, by the path that scans it.
scanOf(u, cfg) ==
    IF u \in openDocs THEN scanDocument(u, compileConfig(cfg))
    ELSE scanText(disk[u].text, compileConfig(cfg))

\* C1: when a workspace scan has run to completion, uncancelled and with
\* nothing else running in between, the store holds the scan of every
\* readable, non-binary candidate (of its buffer when it is open), the scan
\* of every other open buffer, and nothing for any other file.
C1_CompletedScanStoreExact ==
    \A sid \in DOMAIN scans :
        (returnedNow(sid) /\ scans[sid].pc = "done" /\ scans[sid].enumerated
            /\ scans[sid].solo)
        => \A u \in Uris :
              store[u] =
                IF u \in candidates(sid)
                   /\ (u \in openDocs
                       \/ (disk[u].readable /\ ~disk[u].binary))
                THEN scanOf(u, scans[sid].config)
                ELSE IF u \in openDocs
                THEN scanDocument(u, compileConfig(scans[sid].config))
                ELSE NoDiagnostics

\* C2: a scan whose token has been cancelled writes nothing any more,
\* neither a store entry nor a scope entry.
C2_NoWriteAfterCancel ==
    [][\A u \in Uris :
          /\ ((store'[u] # store[u] \/ storeWriter'[u] # storeWriter[u])
                 /\ storeWriter'[u] # 0)
             => storeWriter'[u] \notin cancelledTok
          /\ ((u \in inScopeUris' \ inScopeUris \/ scopeWriter'[u] # scopeWriter[u])
                 /\ scopeWriter'[u] # 0)
             => scopeWriter'[u] \notin cancelledTok]_vars

\* C3: once the rescan a configuration change started has completed and
\* every scan has returned, each file's store entry is its scan under the
\* new configuration.
quiescent == /\ timers = <<>>
             /\ tasks = {}
             /\ \A sid \in DOMAIN scans : ~inFlight(sid)
newest == Len(scans)
C3_RescanStoreConsistent ==
    (quiescent /\ newest >= 2 /\ scans[newest].pc = "done")
    => \A u \in Uris :
          store[u] =
            IF u \in openDocs \/ (u \in candidates(newest) /\ disk[u].readable)
            THEN scanOf(u, scans[newest].config)
            ELSE NoDiagnostics

\* C4: a scan that returns cancelled leaves nothing of its own behind,
\* neither in the store nor in the scope set.
C4_CancelledScanLeavesNothing ==
    \A sid \in DOMAIN scans :
        (returnedNow(sid) /\ scans[sid].pc = "cancelled")
        => \A u \in Uris :
              /\ storeWriter[u] = sid => store[u] = NoDiagnostics
              /\ scopeWriter[u] = sid => u \notin inScopeUris

\* C5: when a workspace scan has run to completion, the tracked scope set
\* is exactly the set of enumerated candidates, binary and unreadable ones
\* included.
C5_ScopeIsCandidateSet ==
    \A sid \in DOMAIN scans :
        (returnedNow(sid) /\ scans[sid].pc = "done" /\ scans[sid].enumerated)
        => inScopeUris = candidates(sid)

C5_Witness ==
    /\ Len(scans) = 2
    /\ returnedNow(2)
    /\ scans[2].pc = "done"
    /\ scans[1].pc = "done"
    /\ FileC \in candidates(1)
    /\ FileC \notin inScopeUris
    /\ FileB \in inScopeUris
    /\ ~disk[FileB].readable

\* C6: at most one scan holds a token that is not cancelled, and it is the
\* newest one.
C6_SingleLiveToken ==
    /\ Cardinality({sid \in DOMAIN scans : sid \notin cancelledTok}) <= 1
    /\ \A sid \in DOMAIN scans : sid \notin cancelledTok => sid = scanCts

C6_Witness ==
    /\ Len(scans) = 2
    /\ inFlight(1)
    /\ inFlight(2)
    /\ 1 \in cancelledTok

\* C10: a burst of configuration changes, each finding the rescan timer of
\* the one before still pending, starts exactly one workspace scan: it is
\* started by the timer of the burst's last event and with the
\* configuration read at that event.
C10_OneRescanPerBurst ==
    /\ Cardinality(pendingOf("rescan", "")) <= 1
    /\ burst["rescan"].fired <= 1
    /\ (burst["rescan"].n > 0 /\ pendingOf("rescan", "") = {})
       => burst["rescan"].fired = 1
    /\ last.op = "rescanFire"
       => /\ last.res = "latest"
          /\ scans[last.sid].config = settings.cfg

C10_Witness ==
    /\ last.op = "rescanFire"
    /\ burst["rescan"].n = 2
    /\ burst["rescan"].fired = 1
    /\ scans[2].config # scans[1].config


(***************************************************************************)
(* The per-file handlers: save, text change, watcher change.               *)
(***************************************************************************)
\* C7: a watcher change event for a file that arrives while the one second
\* after some save of that file is still running (that save's timer is
\* pending) is ignored: the handler returns before any rescan or write.
\* This holds for every save, a save that follows another within the
\* second included.
C7_SaveSuppressesWatcherChange ==
    (last.op = "fsChange" /\ pendingOf("saved", last.key) # {})
        => last.res = "ignored"

\* C8: when the save handler of a file-scheme document has returned, no
\* debounced rescan of the file is pending (no timer for it is left in the
\* host's table or in the map), and the store holds the scan of the
\* document's content under the current configuration.
C8_SaveCancelsAndScans ==
    (last.op = "save" /\ scheme(last.key) = "file")
        => /\ pendingOf("change", last.key) = {}
           /\ changeTimers[last.key] = 0
           /\ store[last.key] = scanDocument(last.key, compileConfig(config))

\* a save that cancelled a pending debounced rescan and published findings
C8_Witness ==
    /\ last.op = "save" /\ scheme(last.key) = "file"
    /\ burst[last.key].saved /\ burst[last.key].fired = 0
    /\ store[last.key] # NoDiagnostics

\* C9: each file has at most one debounced rescan pending, the one the map
\* names; a burst of changes to one file is followed by exactly one rescan,
\* run by the timer of the last change on the content as it then is
\* (unless a save or the teardown cancelled it); a change to one file
\* leaves the pending rescans of all others as they were.
C9_TrailingDebouncePerFile ==
    /\ \A u \in Uris :
          /\ Cardinality(pendingOf("change", u)) <= 1
          /\ \A i \in pendingOf("change", u) : timers[i].id = changeTimers[u]
          /\ burst[u].fired <= 1
          /\ (burst[u].n > 0 /\ pendingOf("change", u) = {} /\ ~burst[u].saved
                 /\ ~disposed)
                => burst[u].fired = 1
    /\ last.op = "changeFire"
          => /\ last.res = "latest"
             /\ store[last.key] = scanDocument(last.key, compileConfig(config))
    /\ (last.op = "change" /\ last.res # "returned") => last.res = "others-kept"

\* a burst of two changes to a.ts has ended in its one rescan while a
\* rescan of b.ts, changed in between, is still pending
C9_Witness ==
    /\ last.op = "changeFire" /\ last.key = FileA
    /\ burst[FileA].n >= 2 /\ burst[FileA].fired = 1
    /\ pendingOf("change", FileB) # {}
    /\ store[FileA] # NoDiagnostics


(***************************************************************************)
(* File events: delete, close, create, open.                               *)
(***************************************************************************)
\* C11: a delete event for a tracked file removes exactly that file from
\* the scope set and the store; a delete event for any other path removes
\* exactly the tracked files that lie in that directory (none for a path
\* that is only the beginning of a name), and nothing else changes in
\* either collection.
C11_DeleteRemovesExactly ==
    [][last'.op = "fsDelete"
       => LET path == last'.key
              gone == IF path \in inScopeUris THEN {path}
                      ELSE inScopeUris \cap filesAt(path)
          IN /\ inScopeUris' = inScopeUris \ gone
             /\ store' = [u \in Uris |-> IF u \in gone THEN NoDiagnostics ELSE store[u]]]_vars

\* the directory src was deleted: its two tracked files went, b.ts stayed
C11_Witness ==
    /\ last.op = "fsDelete" /\ last.key = DirSrc /\ last.res = "many"
    /\ inScopeUris = {FileB}
    /\ store[FileB] # NoDiagnostics

\* C12: closing a file-scheme document removes its store entry when it is
\* not tracked and leaves the entry as it was when it is tracked; the scope
\* set and every other entry stay as they were.
C12_CloseFrame ==
    [][(last'.op = "close" /\ scheme(last'.key) = "file")
       => /\ inScopeUris' = inScopeUris
          /\ store' = [store EXCEPT ![last'.key] =
                          IF last'.key \in inScopeUris THEN @ ELSE NoDiagnostics]]_vars

\* a tracked file with findings was closed and kept them
C12_Witness ==
    /\ last.op = "close" /\ last.res = "tracked"
    /\ store[last.key] # NoDiagnostics

\* What the enumeration's globs say of a file (findFiles' reading of them).
inGlobScope(u, cfg) ==
    /\ \E i \in DOMAIN cfg.include : globMatch(asRelativePath(u), trim(cfg.include[i]))
    /\ ~ \E i \in DOMAIN cfg.exclude : globMatch(asRelativePath(u), trim(cfg.exclude[i]))

\* C14: a create event for a file that matches the include/exclude scope,
\* is not binary and can be opened tracks the file and publishes its scan;
\* for any other file the handler leaves scope set and store as they were.
C14_CreateTracksInScopeText ==
    [][/\ last'.op = "fsCreate"
          => /\ inScopeUris' = inScopeUris /\ store' = store
             /\ last'.res = IF inGlobScope(last'.key, config) THEN "handled" ELSE "ignored"
       /\ last'.op = "fsCreateBinary"
          => inScopeUris' = inScopeUris /\ store' = store
       /\ last'.op = "fsCreateOpened"
          => IF disk[last'.key].exists /\ disk[last'.key].readable
             THEN /\ inScopeUris' = inScopeUris \cup {last'.key}
                  /\ store' = [store EXCEPT ![last'.key] =
                        scanDocumentText(last'.key, buffer'[last'.key], compileConfig(config))]
             ELSE inScopeUris' = inScopeUris /\ store' = store]_vars

\* C20: opening a file-scheme document sets its store entry, in the
\* handler, to the scan of the document's content under the current
\* configuration; no other entry and no timer changes.
C20_OpenScansAtOnce ==
    [][(last'.op = "open" /\ scheme(last'.key) = "file")
       => /\ store' = [store EXCEPT ![last'.key] =
                scanDocumentText(last'.key, buffer'[last'.key], compileConfig(config))]
          /\ timers' = timers
          /\ changeTimers' = changeTimers
          /\ rescanTimer' = rescanTimer]_vars

\* an untracked file was opened and its findings are published
C20_Witness ==
    /\ last.op = "open" /\ last.res = "scanned"
    /\ last.key \notin inScopeUris
    /\ store[last.key] # NoDiagnostics

\* C13: a watcher change event for a recently saved or an untracked file
\* changes neither store nor scope set; for any other file the entry is
\* removed when the file is binary now and replaced by the scan of its
\* content when it is not; the scope set is never changed.
C13_WatcherChangeEffect ==
    [][/\ last'.op = "fsChange"
          => /\ inScopeUris' = inScopeUris /\ store' = store
             /\ last'.res = IF last'.key \in recentlySavedUris \/ last'.key \notin inScopeUris
                            THEN "ignored" ELSE "handled"
       /\ last'.op = "fsChangeBinary"
          => /\ inScopeUris' = inScopeUris
             /\ store' = IF disk[last'.key].exists /\ disk[last'.key].readable
                            /\ disk[last'.key].binary
                         THEN [store EXCEPT ![last'.key] = NoDiagnostics] ELSE store
       /\ last'.op = "fsChangeOpened"
          => /\ inScopeUris' = inScopeUris
             /\ store' = IF disk[last'.key].exists /\ disk[last'.key].readable
                         THEN [store EXCEPT ![last'.key] =
                                 scanDocumentText(last'.key, buffer'[last'.key],
                                                  compileConfig(config))]
                         ELSE store]_vars

\* b.ts was rewritten outside the editor and its entry now is the scan of
\* the new content
C13_Witness ==
    /\ last.op = "fsChangeOpened" /\ last.key = FileB
    /\ FileB \notin openDocs
    /\ disk[FileB].text = TextTodo
    /\ store[FileB] = scanText(TextTodo, compileConfig(config))
    /\ store[FileB] # NoDiagnostics

(***************************************************************************)
(* Enable flags, binary candidates, failing reads, teardown.               *)
(***************************************************************************)
\* C15: no step publishes a non-empty diagnostic list for a resource that
\* scanning is disabled for, globally or by a language override.
C15_DisabledNeverPublished ==
    [][\A u \in Uris :
          (store'[u] # store[u] /\ store'[u] # NoDiagnostics) => isEnabledFor(u)]_vars

\* C16: a scanWorkspace call made with the global enable flag off has
\* returned, without enumerating, when startScan returns, and store and
\* scope set are empty then.
C16_DisabledScanClears ==
    (last.op \in {"activate", "rescanFire"} /\ ~settings.enable)
        => /\ store = EmptyStore
           /\ inScopeUris = {}
           /\ scans[last.sid].pc = "done"
           /\ ~scans[last.sid].enumerated

\* the flag went off after a first scan had completed over its candidates
C16_Witness ==
    /\ last.op = "rescanFire" /\ ~settings.enable
    /\ scans[1].pc = "done" /\ scans[1].enumerated /\ Len(scans[1].uris) > 1
    /\ scans[1].solo

\* C17: after a completed workspace scan every binary candidate is tracked
\* and has no diagnostics.
C17_BinaryCandidateTrackedNotScanned ==
    \A sid \in DOMAIN scans :
        (returnedNow(sid) /\ scans[sid].pc = "done" /\ scans[sid].enumerated
            /\ scans[sid].solo)
        => \A u \in candidates(sid) :
              disk[u].binary => (u \in inScopeUris /\ store[u] = NoDiagnostics)

\* C18: a candidate whose read fails gets no entry and stops nothing: the
\* scan goes through every batch to its end, every readable text candidate
\* has its diagnostics, and a scan only ever leaves early when cancelled.
C18_ReadFailureIsolated ==
    /\ \A sid \in DOMAIN scans : scans[sid].pc = "cancelled" => sid \in cancelledTok
    /\ \A sid \in DOMAIN scans :
          (returnedNow(sid) /\ scans[sid].pc = "done" /\ scans[sid].enumerated
              /\ scans[sid].solo)
          => /\ inScopeUris = candidates(sid)
             /\ \A u \in candidates(sid) :
                   IF u \notin openDocs /\ ~(disk[u].exists /\ disk[u].readable)
                   THEN store[u] = NoDiagnostics
                   ELSE ~disk[u].binary => store[u] = scanOf(u, scans[sid].config)

\* b.ts could not be read; a.ts of the same batch has its findings and
\* c.png of the next batch was reached
C18_Witness ==
    /\ Len(scans) = 1 /\ returnedNow(1) /\ scans[1].pc = "done"
    /\ ~disk[FileB].readable
    /\ candidates(1) = FileUris
    /\ FileA \notin openDocs
    /\ store[FileA] # NoDiagnostics
    /\ FileC \in inScopeUris

\* C19: once the controller is disposed no timer callback runs and nothing
\* is written to the store or the scope set.
C19_NothingAfterDispose ==
    [][disposed
       => /\ last'.op \notin {"changeFire", "rescanFire", "savedExpiry"}
          /\ store' = store
          /\ inScopeUris' = inScopeUris]_vars

(***************************************************************************)
(* The scanner: what one call returns.                                     *)
(***************************************************************************)
scanned == last.op \in {"scanText", "scanDocument"}

\* The lines the call that ran last went over.
scannedLines ==
    IF last.op = "scanText" THEN split(disk[FileA].text)
    ELSE documentLines(buffer[Untitled])

\* C21: with an empty keyword list nothing is reported, whatever the text,
\* the pattern template and the case setting: scanText and scanDocument
\* return no diagnostic and the workspace scan stores none.
C21_EmptyKeywordsNoDiagnostics ==
    Len(config.keywords) = 0 =>
        /\ scanned => last.res = NoDiagnostics
        /\ \A u \in Uris : store[u] = NoDiagnostics

C21_Witness ==
    /\ Len(config.keywords) = 0
    /\ disk[FileA].text = WordTodo \o <<":", "x">>
    /\ scans[1].pc = "done"
    /\ last.op = "scanDocument"
    /\ last.res = NoDiagnostics

\* C22: a call reports at most one diagnostic per line, exactly for the
\* lines the pattern matches, at the leftmost match of the line, in
\* strictly ascending line order and with every line number below the line
\* count; a line that matches twice has the one diagnostic, whose message
\* runs to the end of the line.
C22_OnePerLineLeftmost ==
    scanned =>
        LET regex == compileConfig(config).pattern
            res == last.res
            matches(l) == {p \in 0..Len(l) : matchAt(regex, l, p) # NoMatch}
        IN /\ \A i \in DOMAIN res : res[i].line \in 0..(Len(scannedLines) - 1)
           /\ \A i, j \in DOMAIN res : i < j => res[i].line < res[j].line
           /\ \A n \in DOMAIN scannedLines :
                 (matches(scannedLines[n]) # {}) <=> (\E i \in DOMAIN res : res[i].line = n - 1)
           /\ \A i \in DOMAIN res :
                 LET l == scannedLines[res[i].line + 1]
                     m == matchAt(regex, l, res[i].start)
                     rest == trim(SubSeq(l, m.g2[1] + 1, Len(l)))
                     msg == res[i].message
                 IN /\ res[i].start \in matches(l)
                    /\ \A p \in matches(l) : res[i].start <= p
                    /\ (\A j \in DOMAIN l : l[j] \notin LineTerminators) =>
                          /\ m.end = Len(l)
                          /\ Len(msg) >= Len(rest)
                          /\ SubSeq(msg, Len(msg) - Len(rest) + 1, Len(msg)) = rest

C22_Witness ==
    /\ last.op = "scanDocument"
    /\ buffer[Untitled] = WordTodo \o <<" ">> \o WordTodo
    /\ config.pattern = PatternLoose
    /\ Cardinality({p \in 0..Len(buffer[Untitled]) :
                       matchAt(compileConfig(config).pattern, buffer[Untitled], p) # NoMatch}) = 2
    /\ Len(last.res) = 1
    /\ last.res[1].start = 0
    /\ last.res[1].message = WordTodo \o <<":", " ">> \o WordTodo

\* C23: the message of a diagnostic is "K: T" when T, the text of capture
\* group 2 trimmed of white space, is not empty, and K alone when it is;
\* K is the text of capture group 1, upper-cased when matching is
\* case-insensitive and as matched when it is case-sensitive.
C23_MessageForm ==
    scanned =>
        \A i \in DOMAIN last.res :
            LET l == scannedLines[last.res[i].line + 1]
                m == exec(compileConfig(config).pattern, l)
                g1 == SubSeq(l, m.g1[1] + 1, m.g1[2])
                K == IF config.caseSensitive THEN g1 ELSE toUpperCase(g1)
                T == trim(SubSeq(l, m.g2[1] + 1, m.g2[2]))
                msg == last.res[i].message
            IN /\ msg = IF T = <<>> THEN K ELSE K \o <<":", " ">> \o T
               /\ K \in {lookupKey(config.keywords[k].keyword, config.caseSensitive) :
                             k \in DOMAIN config.keywords}
               /\ msg[Len(msg)] \notin WhiteSpace
               /\ T # <<>> => T[1] \notin WhiteSpace

C23_Witness ==
    /\ last.op = "scanText"
    /\ ~config.caseSensitive
    /\ disk[FileA].text = WordTodoLower \o <<":", " ">>
    /\ Len(last.res) = 1
    /\ last.res[1].message = WordTodo

\* C24: the range of a diagnostic lies on the matched line, from the offset
\* of the match to that offset plus the length of the full match without
\* its trailing white space: start <= end <= the length of the line, and
\* the range ends on no white space.
C24_RangeTrimmed ==
    scanned =>
        \A i \in DOMAIN last.res :
            LET d == last.res[i]
                l == scannedLines[d.line + 1]
                m == exec(compileConfig(config).pattern, l)
            IN /\ d.start = m.index
               /\ d.end = d.start + Len(trimEnd(SubSeq(l, m.index + 1, m.end)))
               /\ d.start <= d.end
               /\ d.end <= Len(l)
               /\ d.end > d.start => l[d.end] \notin WhiteSpace
               /\ \A j \in (d.end + 1)..m.end : l[j] \in WhiteSpace

C24_Witness ==
    /\ last.op = "scanDocument"
    /\ buffer[Untitled] = <<" ">> \o WordTodo \o <<" ">>
    /\ Len(last.res) = 1
    /\ last.res[1].line = 0
    /\ last.res[1].start = 1
    /\ last.res[1].end = 5
    /\ last.res[1].end < Len(buffer[Untitled])

\* The rule a diagnostic takes its severity from: the last one whose
\* keyword, after case normalization, is the matched keyword (0 for none).
ruleOf(d) ==
    LET l == scannedLines[d.line + 1]
        m == exec(compileConfig(config).pattern, l)
        K == lookupKey(SubSeq(l, m.g1[1] + 1, m.g1[2]), config.caseSensitive)
        hits == {k \in DOMAIN config.keywords :
                    lookupKey(config.keywords[k].keyword, config.caseSensitive) = K}
    IN IF hits = {} THEN 0 ELSE CHOOSE k \in hits : \A j \in hits : j <= k

\* C25: the severity of a diagnostic is the one configured by the last rule
\* whose keyword, after case normalization, is the matched keyword; a
\* severity string that is not error, warning, info or hint, or a keyword
\* no rule has, gives warning.
C25_SeverityOfLastRule ==
    scanned =>
        \A i \in DOMAIN last.res :
            LET k == ruleOf(last.res[i])
            IN last.res[i].severity =
                  IF k # 0 /\ config.keywords[k].severity \in {"error", "warning", "info", "hint"}
                  THEN config.keywords[k].severity
                  ELSE "warning"

\* The configuration with every keyword upper-cased, matched exactly.
upperCased(cfg) ==
    [cfg EXCEPT !.keywords = [k \in DOMAIN @ |-> [@[k] EXCEPT !.keyword = toUpperCase(@)]],
                !.caseSensitive = TRUE]

\* C26: case-sensitive, a line matches only a keyword written exactly as a
\* rule has it; case-insensitive, a line matches whatever the casing of
\* the keyword in the rule and in the line (exactly when the upper-cased
\* line matches the upper-cased keywords), the keyword is reported
\* upper-cased, and the severity is the one the last rule of that keyword,
\* in any casing, configures.
C26_CaseSetting ==
    scanned =>
        /\ \A i \in DOMAIN last.res :
              LET d == last.res[i]
                  l == scannedLines[d.line + 1]
                  m == exec(compileConfig(config).pattern, l)
                  g1 == SubSeq(l, m.g1[1] + 1, m.g1[2])
                  hits == {k \in DOMAIN config.keywords :
                              toUpperCase(config.keywords[k].keyword) = toUpperCase(g1)}
                  rule == config.keywords[CHOOSE k \in hits : \A j \in hits : j <= k]
              IN IF config.caseSensitive
                 THEN /\ g1 \in {config.keywords[k].keyword : k \in DOMAIN config.keywords}
                      /\ SubSeq(d.message, 1, Len(g1)) = g1
                 ELSE /\ SubSeq(d.message, 1, Len(g1)) = toUpperCase(g1)
                      /\ hits # {}
                      /\ d.severity = SEVERITY_MAP(rule.severity)
        /\ ~config.caseSensitive =>
              \A n \in DOMAIN scannedLines :
                  (\E i \in DOMAIN last.res : last.res[i].line = n - 1)
                      <=> exec(compileConfig(upperCased(config)).pattern,
                               toUpperCase(scannedLines[n])) # NoMatch

C26_Witness ==
    /\ last.op = "scanText"
    /\ ~config.caseSensitive
    /\ config.keywords = <<[keyword |-> WordTodoLower, severity |-> "info"]>>
    /\ disk[FileA].text = WordTodo \o <<":", "x">>
    /\ Len(last.res) = 1
    /\ last.res[1].message = WordTodo \o <<":", " ", "x">>
    /\ last.res[1].severity = "info"

\* What the claim compares of a diagnostic.
lineMessageSeverity(diagnostics) ==
    [i \in DOMAIN diagnostics |->
        [line |-> diagnostics[i].line, message |-> diagnostics[i].message,
         severity |-> diagnostics[i].severity]]

\* C27: scanDocument over a document and scanText over the same content
\* return the same diagnostics (line, message, severity).
C27_TextAndDocumentAgree ==
    last.op = "scanDocument" =>
        lineMessageSeverity(last.res)
            = lineMessageSeverity(scanText(buffer[Untitled], compileConfig(config)))

(***************************************************************************)
(* The scope functions (SpecScope).                                        *)
(***************************************************************************)

matchesSome(u, globs) == \E i \in DOMAIN globs : globMatch(asRelativePath(u), globs[i])

\* C28: with an empty include list every path counts as included: a path
\* of the workspace is in scope iff it matches no exclude glob.
C28_EmptyIncludeIsAll ==
    (last.op = "matchesScope" /\ getWorkspaceFolder(last.key) # "" /\ Len(config.include) = 0)
    => (last.res <=> ~matchesSome(last.key, config.exclude))

\* C29: the glob matcher follows the stated semantics for every path and
\* pattern: ** is zero or more whole path segments, * stays within one
\* segment, ? is exactly one character other than the separator.
C29_GlobSemantics ==
    last.op = "matchGlob"
    => \A p \in GlobPool : last.res[p] <=> globMatch(asRelativePath(last.key), p)

\* C30: a path is in scope iff it matches at least one include glob and
\* no exclude glob; a path matching both an include and an exclude glob is
\* out of scope.
C30_IncludeAndNotExclude ==
    (last.op = "matchesScope" /\ getWorkspaceFolder(last.key) # "" /\ Len(config.include) > 0)
    => (last.res <=> (/\ matchesSome(last.key, config.include)
                      /\ ~matchesSome(last.key, config.exclude)))

(***************************************************************************)
(* Keywords and templates (SpecCompile).                                   *)
(***************************************************************************)
\* C31: every keyword is literal text in the compiled pattern, whatever
\* characters it holds: the alternatives of the pattern are the keywords
\* as written, and a line is reported for a keyword only where the
\* keyword's own characters stand.
C31_KeywordsLiteral ==
    (last.op = "scanText" /\ config.pattern = PatternLoose)
    => /\ compileConfig(config).pattern.alternation =
             [i \in DOMAIN config.keywords |-> config.keywords[i].keyword]
       /\ \A n \in DOMAIN last.res :
             LET d == last.res[n]
                 l == scannedLines[d.line + 1]
             IN \E i \in DOMAIN config.keywords :
                   LET kw == config.keywords[i].keyword
                       found == SubSeq(l, d.start + 1, Min(d.start + Len(kw), Len(l)))
                   IN IF config.caseSensitive THEN found = kw
                      ELSE toUpperCase(found) = toUpperCase(kw)

\* C32: a template that does not compile, or one that has no group for
\* the keyword, makes no call throw: the call returns, and returns no
\* diagnostic.
C32_MalformedNeverThrows ==
    /\ last.op \notin {"scanTextThrew", "scanDocumentThrew"}
    /\ (scanned /\ config.pattern \in {PatternNoGroup, PatternUnclosed})
         => last.res = NoDiagnostics

(***************************************************************************)
(* toGlob (SpecGlob).                                                      *)
(***************************************************************************)
\* C33: toGlob trims the patterns and drops the empty ones; of what
\* remains it returns the empty string for none, the pattern for one and
\* {p1,p2,...} in the given order for several; the result matches a path
\* exactly when one of the given non-blank patterns, trimmed, does.
C33_ToGlobUnion ==
    last.op = "toGlob"
    => LET given == last.key
           kept == SelectSeq([i \in DOMAIN given |-> trim(given[i])], LAMBDA p : p # <<>>)
       IN /\ Len(kept) = 0 => last.res = <<>>
          /\ Len(kept) = 1 => last.res = kept[1]
          /\ Len(kept) = 2 => last.res = <<"{">> \o kept[1] \o <<",">> \o kept[2] \o <<"}">>
          /\ Len(kept) = 3 => last.res = <<"{">> \o kept[1] \o <<",">> \o kept[2]
                                             \o <<",">> \o kept[3] \o <<"}">>
          /\ Len(kept) <= 3
          /\ \A u \in ScopeUris \ {Untitled} :
                GlobMatches(last.res, u)
                   <=> \E i \in DOMAIN kept : globMatch(asRelativePath(u), kept[i])

\* toGlob was given a padded pattern and a second one: both are in the
\* braces, the first trimmed
C33_Witness ==
    /\ last.op = "toGlob"
    /\ Len(last.key) = 2
    /\ last.key[1] = <<" ", "s", "r", "c", "/", "*", "*", "/", "*", ".", "t", "s", " ">>
    /\ last.key[2] = GlobAll
    /\ last.res = <<"{", "s", "r", "c", "/", "*", "*", "/", "*", ".", "t", "s", ",",
                    "*", "*", "/", "*", "}">>

(***************************************************************************)
(* Failures and races of the watcher's handlers (SpecRace).                *)
(***************************************************************************)
\* C34: when isLikelyBinaryFile or openTextDocument fails in the watcher's
\* create or change handler, the handler ends there (nothing of it stays
\* pending) and the store, the entry of the file included, and the scope
\* set are what they were before.
C34_FailedHandlerLeavesAll ==
    [][(/\ last'.op \in {"fsCreateBinary", "fsCreateOpened", "fsChangeBinary",
                         "fsChangeOpened"}
        /\ ~(disk[last'.key].exists /\ disk[last'.key].readable))
       => /\ store' = store
          /\ inScopeUris' = inScopeUris
          /\ tasks' \subseteq tasks /\ tasks' # tasks]_vars

\* the open failed in the create handler of a file deleted meanwhile, with
\* findings of another file in the store
C34_Witness ==
    /\ last.op = "fsCreateOpened" /\ last.res = "failed"
    /\ last.key \notin inScopeUris
    /\ \E u \in inScopeUris : store[u] # NoDiagnostics

(***************************************************************************)
(* The debounced rescan comes (SpecLive).                                  *)
(***************************************************************************)
\* C35: a rescan pending for an open file is run in the end, unless a
\* further change or a save of that file or the teardown comes first: then
\* the entry of the file is the scan of its buffer as it is at that time
\* and no timer is pending for it.  (A state in which the last event was
\* itself a change or save of the file is where the wait begins anew.)
C35_RescanComes ==
    \A u \in FileUris :
        (/\ pendingOf("change", u) # {}
         /\ ~(last.op \in {"change", "save"} /\ last.key = u))
        ~> \/ /\ last.op = "changeFire" /\ last.key = u
              /\ store[u] = scanDocument(u, compileConfig(config))
              /\ pendingOf("change", u) = {}
              /\ changeTimers[u] = 0
           \/ last.op \in {"change", "save"} /\ last.key = u /\ last.res # "returned"
           \/ disposed

\* the rescan of a.ts has run after an event of the untitled document
\* came between the change and the timer
C35_Witness ==
    /\ last.op = "changeFire" /\ last.key = FileA
    /\ burst[FileA].n = 1 /\ burst[FileA].fired = 1 /\ ~burst[FileA].saved
    /\ buffer[FileA] # disk[FileA].text
    /\ store[FileA] = scanDocument(FileA, compileConfig(config))
    /\ pendingOf("change", FileA) = {}

\* C38: every tracked file is on disk: a file whose delete event (or that
\* of its directory) has been handled is not in the scope set until it is
\* created again.
C38_TrackedFilesExist ==
    \A u \in inScopeUris : u \in FileUris /\ disk[u].exists

(***************************************************************************)
(* Documents that are no files (Spec).                                     *)
(***************************************************************************)
\* C40: the store holds no entry for a document that is not a file.
C40_OnlyFilesPublished ==
    \A u \in Uris : scheme(u) # "file" => store[u] = NoDiagnostics

(***************************************************************************)
(* The batches of a scan (Spec).                                           *)
(***************************************************************************)
\* C36: a scan has at most BATCH_SIZE reads outstanding, all of the batch
\* it is at; it moves on to the next batch only in the step in which the
\* last read of the batch settles, and by then the non-empty results of
\* the batch are in the store.
C36_BoundedBatches ==
    [][\A sid \in DOMAIN scans' :
          LET sc == scans'[sid]
          IN /\ Cardinality(sc.pending) <= BATCH_SIZE
             /\ sc.pending \subseteq
                   {sc.uris[j] : j \in sc.i..Min(sc.i + BATCH_SIZE - 1, Len(sc.uris))}
             /\ (sid \in DOMAIN scans /\ sc.i > scans[sid].i)
                   => /\ scans[sid].pending \subseteq {last'.key}
                      /\ \A u \in DOMAIN scans[sid].results :
                            LET r == scans[sid].results[u]
                            IN (r.ok /\ Len(r.diagnostics) > 0)
                                  => store'[u] = r.diagnostics]_vars

\* the reads of the second batch are outstanding, the findings of the
\* first are in the store
C36_Witness ==
    \E sid \in DOMAIN scans :
        /\ scans[sid].pc = "batch"
        /\ scans[sid].i = 1 + BATCH_SIZE
        /\ scans[sid].pending # {}
        /\ \E j \in 1..BATCH_SIZE :
              /\ store[scans[sid].uris[j]] # NoDiagnostics
              /\ storeWriter[scans[sid].uris[j]] = sid

(***************************************************************************)
(* Store, scope set and open documents (SpecLife).                         *)
(***************************************************************************)
\* C37: with no scan, no handler and no timer under way, every file that
\* has findings in the store is tracked or open in the editor.
C37_FindingsTrackedOrOpen ==
    (/\ \A sid \in DOMAIN scans : scans[sid].pc \notin {"enumerating", "batch"}
     /\ tasks = {}
     /\ timers = <<>>)
    => \A u \in FileUris : store[u] # NoDiagnostics => (u \in inScopeUris \/ u \in openDocs)

\* C39: with no scan, no handler and no timer under way, the entry of a
\* tracked text file that is on disk and not open is the scan of the
\* file's content on disk.
C39_ClosedTrackedMatchesDisk ==
    (/\ \A sid \in DOMAIN scans : scans[sid].pc \notin {"enumerating", "batch"}
     /\ tasks = {}
     /\ timers = <<>>)
    => \A u \in (inScopeUris \cap FileUris) \ openDocs :
          (disk[u].exists /\ disk[u].readable /\ ~disk[u].binary)
             => store[u] = scanText(disk[u].text, compileConfig(config))

====
